---------------------------- MODULE Spec2Model ----------------------------
(***************************************************************************)
(* The unit conversion graph of engmcp.                                    *)
(*                                                                         *)
(*  - the closure tool (src/src/main.ts, second program of the file:       *)
(*    generateCompleteConversions, ensureCompleteConversions);             *)
(*  - the checkpointed per-unit conversion generator                       *)
(*    (src/dist/postprocess/linkUnits.js, second program of the file:      *)
(*    classifyUnit, validateConversion, loadCheckpoint, main).             *)
(*                                                                         *)
(* Two files hold the state that outlives a process: the registry          *)
(* (output/global-units-master.json) and the checkpoint                    *)
(* (output/conversions-checkpoint.json).  Everything else is the memory of *)
(* one invocation and is lost when the process stops.                      *)
(***************************************************************************)
EXTENDS Integers, Sequences, FiniteSets, TLC

(***************************************************************************)
(* Bounds of the model.                                                    *)
(***************************************************************************)
\* number of units in the registry of the generator
MaxUnits == 3
\* how many times the generator may be stopped and invoked again
MaxCrashes == 1
\* number of units in the registry that holds two groups of two units
TwoGroupUnits == 5
\* number of invocations of the generator on that registry
MaxInvocations == 3
\* width of one batch of concurrent Oracle calls; the code's width is 20
\* (linkUnits.js lines 186 and 246), scaled down so that a unit list of
\* MaxUnits units spans more than one batch
BatchSize == 2
\* number of edges of the Oracle answer handed to the collector on its own
MaxEdges == 1
\* number of units of the group handed to the closure function
ClosureUnits == 4
\* number of conversions the group holds before closure runs
MaxDirectEdges == 3
\* number of units of the group handed to closure when the multipliers are
\* 2, 3 and their inverses
RatioUnits == 3
\* number of conversions that group holds before closure runs
RatioEdges == 4

(***************************************************************************)
(* Generic helpers.                                                        *)
(***************************************************************************)
Range(s) == {s[n] : n \in DOMAIN s}

Contains(s, x) == \E n \in DOMAIN s : s[n] = x

MaxOf(S) == CHOOSE x \in S : \A y \in S : y <= x

MinOf(S) == CHOOSE x \in S : \A y \in S : x <= y

\* the elements of a set of integers, ascending
RECURSIVE SortedSeq(_)
SortedSeq(S) ==
    IF S = {} THEN <<>> ELSE <<MinOf(S)>> \o SortedSeq(S \ {MinOf(S)})

\* Array.from(new Set(s)): the first occurrence of every element, in order
RECURSIVE Dedupe(_)
Dedupe(s) ==
    IF s = <<>> THEN <<>>
    ELSE LET init == Dedupe(SubSeq(s, 1, Len(s) - 1))
             last == s[Len(s)]
         IN  IF Contains(init, last) THEN init ELSE Append(init, last)

NoDuplicates(s) == \A a, b \in DOMAIN s : s[a] = s[b] => a = b

(***************************************************************************)
(* Multipliers.  A JavaScript number that is positive and finite is a      *)
(* fraction <<numerator, denominator>> in lowest terms; the other values a *)
(* response can carry are tokens.                                          *)
(***************************************************************************)
RECURSIVE Gcd(_, _)
Gcd(a, b) == IF b = 0 THEN a ELSE Gcd(b, a % b)

Frac(n, d) == <<n \div Gcd(n, d), d \div Gcd(n, d)>>

\* the composed multiplier taken from the first leg alone
TimesFirstLeg(a, b) == a

(***************************************************************************)
(* A JavaScript number is a binary floating-point value, and a product is  *)
(* rounded to the width of the significand (53 bits), to nearest with ties *)
(* to even.  Where the rounding matters a number is written                *)
(* <<significand, exponent, "binary">>, standing for                       *)
(* significand * 2^exponent with an odd significand below 2^MantissaBits;  *)
(* the width is scaled down.  The fractions above are numbers whose        *)
(* products are exact.                                                     *)
(***************************************************************************)
MantissaBits == 3

IsBinary(m) == Len(m) = 3

\* the value without its trailing zero bits, so that equal numbers are equal
RECURSIVE Binary(_, _)
Binary(n, e) ==
    IF n > 0 /\ n % 2 = 0 THEN Binary(n \div 2, e + 1) ELSE <<n, e, "binary">>

\* how many low bits of n do not fit the significand
RECURSIVE ExcessBits(_)
ExcessBits(n) == IF n < 2 ^ MantissaBits THEN 0 ELSE 1 + ExcessBits(n \div 2)

\* n * 2^e rounded to the nearest number with MantissaBits significant bits
RoundBinary(n, e) ==
    LET s == ExcessBits(n)
        q == n \div (2 ^ s)
        r == n % (2 ^ s)
        up == s > 0 /\ (2 * r > 2 ^ s \/ (2 * r = 2 ^ s /\ q % 2 = 1))
    IN  Binary(IF up THEN q + 1 ELSE q, e + s)

\* the product without rounding
TimesExactly(a, b) ==
    IF IsBinary(a) /\ IsBinary(b)
    THEN Binary(a[1] * b[1], a[2] + b[2])
    ELSE Frac(a[1] * b[1], a[2] * b[2])

Times(a, b) ==
    IF IsBinary(a) /\ IsBinary(b)
    THEN RoundBinary(a[1] * b[1], a[2] + b[2])
    ELSE Frac(a[1] * b[1], a[2] * b[2])

One == <<1, 1>>

(***************************************************************************)
(* ConversionEquation (src/unnamed/part_000 lines 20-27).  generateUUID    *)
(* is modelled by a tag naming the place that made the id and the pair it  *)
(* was made for.                                                           *)
(***************************************************************************)
Conv(id, from, to, m, eq) ==
    [id |-> id, fromUnitId |-> from, toUnitId |-> to, multiplier |-> m, equation |-> eq]

\* `x * ${multiplier}`
EquationOf(m) ==
    <<"x", " ", "*", " ", ToString(m[1]), IF IsBinary(m) THEN "e" ELSE "/", ToString(m[2])>>

\* the (fromUnitId, toUnitId, multiplier) triples of a conversion list
Triples(convs) ==
    {<<convs[n].fromUnitId, convs[n].toUnitId, convs[n].multiplier>> : n \in DOMAIN convs}

Pairs(convs) == {<<convs[n].fromUnitId, convs[n].toUnitId>> : n \in DOMAIN convs}

\* Array.prototype.find on a conversion list: index of the first match, 0 if none
FindConv(convs, from, to) ==
    LET hits == {n \in DOMAIN convs : convs[n].fromUnitId = from /\ convs[n].toUnitId = to}
    IN  IF hits = {} THEN 0 ELSE MinOf(hits)

(***************************************************************************)
(* The closure function, main.ts lines 189-279.                            *)
(***************************************************************************)
\* Map.get(key) === undefined
NoMult == <<0, 0>>

\* every id that can occur in a key of the multipliers map
KeyIds(units, existing) ==
    Range(units) \cup {existing[n].fromUnitId : n \in DOMAIN existing}
                 \cup {existing[n].toUnitId : n \in DOMAIN existing}

\* lines 206-217: direct conversions (a later entry of the list overwrites an
\* earlier one of the same key), then the identity for every unit
SeedMultipliers(units, existing) ==
    LET ids == KeyIds(units, existing)
    IN  [p \in ids \X ids |->
            IF p[1] = p[2] /\ p[1] \in Range(units) THEN One
            ELSE LET hits == {n \in DOMAIN existing :
                                 existing[n].fromUnitId = p[1] /\ existing[n].toUnitId = p[2]}
                 IN  IF hits = {} THEN NoMult ELSE existing[MaxOf(hits)].multiplier]

\* the intermediate unit taken from the innermost loop instead of the
\* outermost one
RelaxStepInnermostK(m, k, i, j) ==
    LET ik == m[<<k, j>>]
        kj == m[<<j, i>>]
    IN  IF ik # NoMult /\ kj # NoMult /\ m[<<k, i>>] = NoMult
        THEN [m EXCEPT ![<<k, i>>] = Times(ik, kj)]
        ELSE m

\* the composition found last assigned, instead of the one found first
RelaxStepLastWins(m, k, i, j) ==
    LET ik == m[<<i, k>>]
        kj == m[<<k, j>>]
    IN  IF ik # NoMult /\ kj # NoMult
        THEN [m EXCEPT ![<<i, j>>] = Times(ik, kj)]
        ELSE m

\* lines 223-237: the body of the triple loop for one (k, i, j); first
\* assignment wins
RelaxStep(m, k, i, j) ==
    LET ik == m[<<i, k>>]
        kj == m[<<k, j>>]
    IN  IF ik # NoMult /\ kj # NoMult /\ m[<<i, j>>] = NoMult
        THEN [m EXCEPT ![<<i, j>>] = Times(ik, kj)]
        ELSE m

\* line 222: for (const j of units), from position c on
RECURSIVE RelaxJ(_, _, _, _, _)
RelaxJ(units, m, a, b, c) ==
    IF c > Len(units) THEN m
    ELSE LET next == RelaxStep(m, units[a], units[b], units[c])
         IN  IF next = m THEN RelaxJ(units, m, a, b, c + 1)
             ELSE RelaxJ(units, next, a, b, c + 1)

\* line 221: for (const i of units), from position b on
RECURSIVE RelaxI(_, _, _, _)
RelaxI(units, m, a, b) ==
    IF b > Len(units) THEN m
    ELSE RelaxI(units, RelaxJ(units, m, a, b, 1), a, b + 1)

\* line 220: for (const k of units), from position a on
RECURSIVE RelaxK(_, _, _)
RelaxK(units, m, a) ==
    IF a > Len(units) THEN m
    ELSE RelaxK(units, RelaxI(units, m, a, 1), a + 1)

\* lines 242-273: one equation per ordered pair of distinct units with a known
\* multiplier; the existing equation of the pair when there is one
RECURSIVE EmitPairs(_, _, _, _)
EmitPairs(units, existing, m, t) ==
    IF t = Len(units) * Len(units) THEN <<>>
    ELSE LET from == units[(t \div Len(units)) + 1]
             to == units[(t % Len(units)) + 1]
             found == FindConv(existing, from, to)
             rest == EmitPairs(units, existing, m, t + 1)
         IN  IF from = to \/ m[<<from, to>>] = NoMult THEN rest
             ELSE IF found # 0 THEN <<existing[found]>> \o rest
             ELSE <<Conv(<<"closure", from, to>>, from, to, m[<<from, to>>],
                         EquationOf(m[<<from, to>>]))>> \o rest

generateCompleteConversions(units, existing) ==
    IF Len(units) < 2 THEN existing
    ELSE EmitPairs(units, existing, RelaxK(units, SeedMultipliers(units, existing), 1), 0)

(***************************************************************************)
(* Text.  A string is the sequence of its characters.                      *)
(***************************************************************************)
UpperCase ==
    <<"A", "B", "C", "D", "E", "F", "G", "H", "I", "J", "K", "L", "M",
      "N", "O", "P", "Q", "R", "S", "T", "U", "V", "W", "X", "Y", "Z">>

LowerCase ==
    <<"a", "b", "c", "d", "e", "f", "g", "h", "i", "j", "k", "l", "m",
      "n", "o", "p", "q", "r", "s", "t", "u", "v", "w", "x", "y", "z">>

Digits == {"0", "1", "2", "3", "4", "5", "6", "7", "8", "9"}

WhiteSpace == {" "}

\* String.prototype.toLowerCase
ToLowerCase(str) ==
    [n \in DOMAIN str |->
        IF \E x \in DOMAIN UpperCase : UpperCase[x] = str[n]
        THEN LowerCase[CHOOSE x \in DOMAIN UpperCase : UpperCase[x] = str[n]]
        ELSE str[n]]

\* String.prototype.trim
RECURSIVE Trim(_)
Trim(str) ==
    IF str = <<>> THEN str
    ELSE IF str[1] \in WhiteSpace THEN Trim(Tail(str))
    ELSE IF str[Len(str)] \in WhiteSpace THEN Trim(SubSeq(str, 1, Len(str) - 1))
    ELSE str

\* str.replace(/[^a-z0-9]+/g, '-'): every maximal run of other characters
\* becomes one '-'
RECURSIVE ReplaceRuns(_)
ReplaceRuns(str) ==
    LET keep(c) == c \in Range(LowerCase) \cup Digits
    IN  IF str = <<>> THEN <<>>
        ELSE IF keep(str[1]) THEN <<str[1]>> \o ReplaceRuns(Tail(str))
        ELSE IF Len(str) >= 2 /\ ~keep(str[2]) THEN ReplaceRuns(Tail(str))
        ELSE <<"-">> \o ReplaceRuns(Tail(str))

\* the group id made from the group name alone, without the 'ug-' prefix
GroupIdOfNoPrefix(name) == ReplaceRuns(ToLowerCase(name))

\* linkUnits.js line 207
GroupIdOf(name) == <<"u", "g", "-">> \o ReplaceRuns(ToLowerCase(name))

Uncategorized == <<"U", "n", "c", "a", "t", "e", "g", "o", "r", "i", "z", "e", "d">>

(***************************************************************************)
(* Units.  A unit is its id; its symbol is a token of its own, so that an  *)
(* Oracle answer, which names symbols, has to be resolved to ids.          *)
(***************************************************************************)
Units == 1..MaxUnits

SymbolOf(u) == <<"symbol", u>>

\* a symbol that no unit of the registry has
UnknownSymbol == <<"symbol", 0>>

\* a field that is absent from the answer, or empty
Missing == <<>>

(***************************************************************************)
(* classifyUnit, linkUnits.js lines 113-124.  The answer of the Oracle is  *)
(* a failure (the call throws, or the text is not JSON), a JSON value      *)
(* without a string groupName, or a JSON value with one.                   *)
(***************************************************************************)
ClassifyFailure == [kind |-> "failure"]

ClassifyNoName == [kind |-> "no groupName"]

ClassifyName(text) == [kind |-> "groupName", text |-> text]

classifyUnit(answer) ==
    IF answer.kind = "groupName" THEN Trim(answer.text) ELSE Uncategorized

(***************************************************************************)
(* validateConversion, linkUnits.js lines 125-133.  An edge of an answer   *)
(* is [from, to, multiplier, equation].  from and to are symbols, an       *)
(* equation is the sequence of its characters, and an absent or empty      *)
(* field is Missing.  A multiplier is one of the JavaScript values below.  *)
(***************************************************************************)
\* a positive finite number, n/d
Num(n, d) == <<"number", n, d>>

NumZero == <<"number", "zero">>

NumNegative == <<"number", "negative">>

NumInfinity == <<"number", "Infinity">>

NumNaN == <<"number", "NaN">>

\* a value that is not of type number
NotANumber == <<"string">>

\* typeof m === 'number'
IsNumber(m) == Len(m) >= 1 /\ m[1] = "number"

\* m <= 0
NotPositive(m) == Len(m) = 2 /\ m[2] \in {"zero", "negative"}

\* !isFinite(m)
NotFinite(m) == Len(m) = 2 /\ m[2] \in {"Infinity", "NaN"}

\* return null
NullConv == [from |-> Missing, to |-> Missing, multiplier |-> NoMult, equation |-> Missing]

validateConversion(conv, fromUnit, allUnits) ==
    IF conv.from = Missing \/ conv.to = Missing \/ ~IsNumber(conv.multiplier)
       \/ conv.equation = Missing
    THEN NullConv
    ELSE IF conv.from # SymbolOf(fromUnit)
            \/ ~\E n \in DOMAIN allUnits : SymbolOf(allUnits[n]) = conv.to
    THEN NullConv
    ELSE IF NotPositive(conv.multiplier) \/ NotFinite(conv.multiplier)
            \/ ~Contains(conv.equation, "x")
    THEN NullConv
    ELSE [from |-> conv.from, to |-> conv.to,
          multiplier |-> <<conv.multiplier[2], conv.multiplier[3]>>,
          equation |-> Trim(conv.equation)]

\* line 251: conversions.map(c => validateConversion(c, fromUnit, groupUnits))
\*           .filter(Boolean); a failed call has answered [] (lines 142-144)
ValidEdges(answer, fromUnit, groupUnits) ==
    SelectSeq([n \in DOMAIN answer |-> validateConversion(answer[n], fromUnit, groupUnits)],
              LAMBDA c : c # NullConv)

\* lines 257-268 for one validated edge: the target is the first unit of the
\* group with the symbol; an edge whose pair the list already holds is skipped
MergeEdgeNoPairCheck(convs, fromUnit, convData, groupUnits) ==
    LET hits == {n \in DOMAIN groupUnits : SymbolOf(groupUnits[n]) = convData.to}
    IN  IF hits = {} THEN convs
        ELSE LET toUnit == groupUnits[MinOf(hits)]
             IN  Append(convs, Conv(<<"collector", fromUnit, toUnit>>, fromUnit, toUnit,
                                    convData.multiplier, convData.equation))

MergeEdge(convs, fromUnit, convData, groupUnits) ==
    LET hits == {n \in DOMAIN groupUnits : SymbolOf(groupUnits[n]) = convData.to}
    IN  IF hits = {} THEN convs
        ELSE LET toUnit == groupUnits[MinOf(hits)]
             IN  IF FindConv(convs, fromUnit, toUnit) # 0 THEN convs
                 ELSE Append(convs, Conv(<<"collector", fromUnit, toUnit>>, fromUnit, toUnit,
                                         convData.multiplier, convData.equation))

\* lines 256-269: the validated edges of one unit, in the order of the answer
RECURSIVE MergeEdges(_, _, _, _)
MergeEdges(convs, fromUnit, valid, groupUnits) ==
    IF valid = <<>> THEN convs
    ELSE MergeEdges(MergeEdge(convs, fromUnit, valid[1], groupUnits), fromUnit,
                    Tail(valid), groupUnits)

(***************************************************************************)
(* The registry and the checkpoint, linkUnits.js lines 146-165.            *)
(***************************************************************************)
\* unitGroupId: '' of a unit that has no group (src/unnamed/part_006 line 79)
NoGroup == <<>>

\* currentConversionGroupId: null
Null == <<"null">>

Group(id, name, unitIds, conversions) ==
    [id |-> id, name |-> name, unitIds |-> unitIds, conversions |-> conversions]

\* line 156: the checkpoint of a run that finds no usable checkpoint file
FreshCheckpoint ==
    [classificationComplete |-> FALSE, groupsClassified |-> <<>>,
     conversionsGroupsCompleted |-> <<>>, currentConversionGroupId |-> Null,
     unitsCompleted |-> <<>>]

\* existsSync(path) is false
NoFile == [exists |-> FALSE]

\* a file that cannot be read, whose text is not JSON, or whose JSON is null:
\* readFileSync or JSON.parse throws, or line 151 reads a property of null
Unreadable == [content |-> "unreadable"]

NotJson == [content |-> "not JSON"]

JsonNull == [content |-> "null"]

\* lines 146-157: a JSON object is a record of the fields it has
loadCheckpoint(file) ==
    IF file = NoFile THEN FreshCheckpoint
    ELSE IF "content" \in DOMAIN file THEN FreshCheckpoint
    ELSE IF "classificationComplete" \in DOMAIN file THEN file
    ELSE FreshCheckpoint

\* the ids a registry can hold, in the order of the units array
UnitList == [n \in 1..(IF TwoGroupUnits > MaxUnits THEN TwoGroupUnits ELSE MaxUnits) |-> n]

\* allUnits.filter(u => group.unitIds.includes(u.id)), lines 225 and 235
GroupUnits(group) == SelectSeq(UnitList, LAMBDA u : Contains(group.unitIds, u))

\* line 176
Unmapped(units) ==
    SelectSeq(UnitList, LAMBDA u : u \in DOMAIN units /\ units[u] = NoGroup)

\* units.slice(i, Math.min(i + width, units.length)), lines 188 and 247
Batch(list, i) ==
    SubSeq(list, i + 1, IF i + BatchSize < Len(list) THEN i + BatchSize ELSE Len(list))

(***************************************************************************)
(* State.                                                                  *)
(***************************************************************************)
VARIABLES
    fileUnits,    \* registry file: unitGroupId of every unit
    fileGroups,   \* registry file: unitGroups
    fileCp,       \* checkpoint file, or NoFile
    pc,           \* where the generator process is; "idle" when none runs
    allUnits,     \* main: allUnits (unitGroupId of every unit)
    unitGroups,   \* main: unitGroups
    checkpoint,   \* main: checkpoint
    unmapped,     \* main: unmapped
    needing,      \* main: groupsNeedingConversions, as positions in unitGroups
    groupAt,      \* main: position of the group loop in needing
    toProcess,    \* main: unitsToProcess
    batchAt,      \* main: i of the batch loop (line 187 or line 246)
    inflight,     \* units of the batch whose Oracle call has not settled
    answers,      \* what the settled calls of the batch resolved to
    resultAt,     \* position of the loop of line 255 in the batch
    runs,         \* invocations of the generator so far
    asked,        \* history: <<group id, unit>> of every generateConversions
                  \*   request, and <<Classify, unit>> of every classify
                  \*   request, of the current invocation
    loaded,       \* history: the checkpoint the current invocation loaded
    oracle,       \* the Oracle's answers when it is deterministic, or Free
    registry0,    \* history: unitGroups of the registry before the first run
    setup,        \* how the generator is run: the group caps an invocation can
                  \*   be given and the number of invocations
    batchGroupLimit, \* main: batchGroupLimit, 0 when the argument is absent
    groupsProcessed, \* main: groupsProcessed
    exit,         \* how the last invocation ended: its exit status and what
                  \*   was thrown
    coUnit,       \* collector: fromUnit
    coGroup,      \* collector: groupUnits
    coAnswer,     \* collector: the Oracle's answer, before validation
    coOut,        \* collector: group.conversions after the merge
    coPc,         \* collector: "input" before the call, "done" after
    clUnits,      \* closure function: the group's units, in registry order
    clExisting,   \* closure function: the conversions handed in
    clOut,        \* closure function: the list returned, or NotRun
    clPc,         \* closure function: "input" before the call, "done" after
    clWarnings,   \* closure tool: the warnings validateConversions printed
    fuUnits,      \* findUnitBySymbol: the unit list
    fuSymbol,     \* findUnitBySymbol: the reference
    fuOut,        \* findUnitBySymbol: position of the unit returned, 0 for null
    fuPc,         \* findUnitBySymbol: "input" before the call, "done" after
    dupSpecs,     \* cleanupDuplicates: the spec types
    dupCandidates, \* cleanupDuplicates: the candidate pairs
    dupVerdicts,  \* cleanupDuplicates: what the Oracle returned for the batch
    dupGroups,    \* cleanupDuplicates: duplicateGroups
    dupPc,        \* cleanupDuplicates: where the call is
    dupSent,      \* cleanupDuplicates: the batches sent to the Oracle, in order
    dupReport,    \* cleanupDuplicates: duplicate-report-in-progress.json
    mappingsFile, \* matcher: mappings of mappings-checkpoint.json, or NoFile
    outputFile,   \* matcher: mappings of component-spec-mappings.json
    allMappings,  \* matcher: allMappings
    componentsToProcess, \* matcher: componentsToProcess
    chunkAt,      \* matcher: i of the chunk loop (line 259)
    tasks,        \* matcher: for every component of the chunk, the spec-type
                  \*   batch its matchComponentToAllSpecs is at and whether
                  \*   its matchBatch call is in flight
    matchPc,      \* matcher: where the process is; "idle" when none runs
    matchRuns,    \* matcher: invocations so far
    matchOracle,  \* matcher: the pairs the Oracle finds relevant
    ask,          \* one Oracle request of a caller: the calls made for it
    sgPc,         \* spec-type generator: where the process is
    category,     \* spec-type generator: the category of the loop
    categoryCount,         \* spec-type generator: categoryCount
    consecutiveDuplicates, \* spec-type generator: consecutiveDuplicates
    attempt,      \* spec-type generator: attempt of generateSingleSpecType
    newSpecTypes, \* spec-type generator: the category of each spec type generated
    proposals,    \* history: proposals asked for by the running generateSingleSpecType
    nullsInARow   \* history: calls in a row, in this category, that returned null

genVars ==
    <<fileUnits, fileGroups, fileCp, pc, allUnits, unitGroups, checkpoint, unmapped,
      needing, groupAt, toProcess, batchAt, inflight, answers, resultAt, runs, asked,
      loaded, oracle, registry0, setup, batchGroupLimit, groupsProcessed, exit>>

coVars == <<coUnit, coGroup, coAnswer, coOut, coPc>>

fuVars == <<fuUnits, fuSymbol, fuOut, fuPc>>

dupVars ==
    <<dupSpecs, dupCandidates, dupVerdicts, dupGroups, dupPc, dupSent, dupReport>>

matchVars ==
    <<mappingsFile, outputFile, allMappings, componentsToProcess, chunkAt, tasks, matchPc,
      matchRuns, matchOracle>>

askVars == <<ask>>

globalVars ==
    <<sgPc, category, categoryCount, consecutiveDuplicates, attempt, newSpecTypes, proposals,
      nullsInARow>>

callVars ==
    <<clUnits, clExisting, clOut, clPc, clWarnings, coVars, fuVars, dupVars, matchVars,
      askVars, globalVars>>

vars == <<genVars, callVars>>

(***************************************************************************)
(* The Oracle.                                                             *)
(***************************************************************************)
MassName == <<"M", "a", "s", "s">>

\* what a classify call can come back with: a failure, JSON without a name,
\* the name of the library group, the same name in another spelling, which
\* has the same slug, and an empty name
ClassifyAnswers ==
    {ClassifyFailure, ClassifyNoName, ClassifyName(MassName),
     ClassifyName(<<" ", "m", "a", "s", "s">>), ClassifyName(<<>>)}

\* the answers of an Oracle that names the library group or fails
PlainClassifyAnswers == {ClassifyFailure, ClassifyName(MassName)}

Edge(from, to, m, eq) == [from |-> from, to |-> to, multiplier |-> m, equation |-> eq]

TimesTwo == <<"x", " ", "*", " ", "2">>

TimesThree == <<"x", " ", "*", " ", "3">>

GoodEdge(u, v) == Edge(SymbolOf(u), SymbolOf(v), Num(2, 1), TimesTwo)

\* the units of the group other than u, in the order of the group
Siblings(u, groupUnits) == SelectSeq(groupUnits, LAMBDA v : v # u)

\* one edge to every sibling, as the prompt asks for (line 138)
FullAnswer(u, groupUnits) ==
    [n \in DOMAIN Siblings(u, groupUnits) |-> GoodEdge(u, Siblings(u, groupUnits)[n])]

\* an edge from u to u itself, then the edges asked for
SelfAnswer(u, groupUnits) == <<GoodEdge(u, u)>> \o FullAnswer(u, groupUnits)

\* an edge to the first sibling, the same pair again with another multiplier,
\* and edges that name a symbol outside the group, a multiplier of zero, an
\* equation without the variable, another unit as source
PartialAnswer(u, groupUnits) ==
    LET v == IF Siblings(u, groupUnits) = <<>> THEN u ELSE Siblings(u, groupUnits)[1]
        outside == {w \in Units : ~Contains(groupUnits, w)}
    IN  <<GoodEdge(u, v),
          Edge(SymbolOf(u), SymbolOf(v), Num(3, 1), TimesThree),
          Edge(SymbolOf(u), IF outside = {} THEN UnknownSymbol ELSE SymbolOf(MinOf(outside)),
               Num(2, 1), TimesTwo),
          Edge(SymbolOf(u), SymbolOf(v), NumZero, TimesTwo),
          Edge(SymbolOf(u), SymbolOf(v), Num(2, 1), <<"2">>),
          Edge(SymbolOf(v), SymbolOf(u), Num(2, 1), TimesTwo)>>

\* what a generateConversions call can come back with; a failed call answers
\* [] (lines 142-144)
ConvAnswers(u, groupUnits) ==
    {<<>>, FullAnswer(u, groupUnits), SelfAnswer(u, groupUnits), PartialAnswer(u, groupUnits)}

\* the answers of an Oracle that fails or answers what it was asked for
PlainConvAnswers(u, groupUnits) == {<<>>, FullAnswer(u, groupUnits)}

\* The Oracle of a behaviour: the classify answers it gives, whether its
\* generateConversions answers are the plain ones, and, when it is
\* deterministic, the kind of answer it gives for every unit.
OracleOf(names, plain, deterministic, kinds) ==
    [names |-> names, plain |-> plain, deterministic |-> deterministic, kinds |-> kinds,
     classes |-> <<>>]

\* The Oracle whose responses are fixed: the classify answer and the kind of
\* generateConversions answer it gives for every unit.
FixedOracle(classes, kinds) ==
    [names |-> {classes[u] : u \in DOMAIN classes}, plain |-> FALSE, deterministic |-> TRUE,
     kinds |-> kinds, classes |-> classes]

\* the classify answers the Oracle can give for unit u
NamesFor(u) == IF oracle.classes = <<>> THEN oracle.names ELSE {oracle.classes[u]}

AnswerKinds == {"failure", "full", "self", "partial"}

AnswerOfKind(kind, u, groupUnits) ==
    CASE kind = "failure" -> <<>>
      [] kind = "full" -> FullAnswer(u, groupUnits)
      [] kind = "self" -> SelfAnswer(u, groupUnits)
      [] OTHER -> PartialAnswer(u, groupUnits)

AnswersFor(u, groupUnits) ==
    IF oracle.deterministic THEN {AnswerOfKind(oracle.kinds[u], u, groupUnits)}
    ELSE IF oracle.plain THEN PlainConvAnswers(u, groupUnits)
    ELSE ConvAnswers(u, groupUnits)

(***************************************************************************)
(* The generator, linkUnits.js lines 166-288.                              *)
(***************************************************************************)
\* the registry that src/unnamed/part_006 leaves: the first k units in the
\* library group 'Mass' with the conversions the library knew, the others
\* without a group
LibraryGroup(k, convs) == Group(GroupIdOf(MassName), MassName, [n \in 1..k |-> n], convs)

LibraryConversions(k) ==
    {<<>>} \cup IF k >= 2
                THEN {<<Conv(<<"registry", 2, 1>>, 2, 1, Frac(3, 1), EquationOf(Frac(3, 1)))>>}
                ELSE {}

\* how an invocation ended, or that none has
Ended(status, thrown) == [status |-> status, thrown |-> thrown]

NotEnded == Ended("none", "nothing")

\* invocations without the argument, as many as there can be with the
\* interruptions allowed
Uncapped == [caps |-> {0}, invocations |-> MaxCrashes + 1]

NoFindCall == fuUnits = <<>> /\ fuSymbol = <<>> /\ fuOut = 0 /\ fuPc = "none"

NoAsk == [caller |-> "none"]

NoRequest == ask = NoAsk

NoGlobalGenerator ==
    /\ sgPc = "none" /\ category = 0 /\ categoryCount = 0 /\ consecutiveDuplicates = 0
    /\ attempt = 0 /\ newSpecTypes = <<>> /\ proposals = 0 /\ nullsInARow = 0

NoMatcher ==
    /\ mappingsFile = NoFile /\ outputFile = NoFile /\ allMappings = <<>>
    /\ componentsToProcess = <<>> /\ chunkAt = 0 /\ tasks = <<>> /\ matchPc = "none"
    /\ matchRuns = 0 /\ matchOracle = {}

NoCleanupCall ==
    /\ dupSpecs = <<>> /\ dupCandidates = <<>> /\ dupVerdicts = <<>> /\ dupGroups = <<>>
    /\ dupPc = "none" /\ dupSent = <<>> /\ dupReport = NoFile
    /\ NoMatcher /\ NoRequest /\ NoGlobalGenerator

NoCollectorCall ==
    /\ coUnit = 0 /\ coGroup = <<>> /\ coAnswer = <<>> /\ coOut = <<>> /\ coPc = "none"
    /\ NoFindCall /\ NoCleanupCall

NoFunctionCall ==
    /\ clUnits = <<>> /\ clExisting = <<>> /\ clOut = <<>> /\ clPc = "none"
    /\ clWarnings = <<>>
    /\ NoCollectorCall

InitRegistry ==
    \E k \in 0..MaxUnits : \E convs \in LibraryConversions(k) :
        /\ fileUnits = [u \in Units |-> IF u <= k THEN GroupIdOf(MassName) ELSE NoGroup]
        /\ fileGroups = IF k = 0 THEN <<>> ELSE <<LibraryGroup(k, convs)>>

InitProcess ==
    /\ fileCp = NoFile /\ pc = "idle" /\ runs = 0
    /\ allUnits = <<>> /\ unitGroups = <<>> /\ checkpoint = <<>> /\ unmapped = <<>>
    /\ needing = <<>> /\ groupAt = 0 /\ toProcess = <<>> /\ batchAt = 0
    /\ inflight = {} /\ answers = <<>> /\ resultAt = 0 /\ asked = {} /\ loaded = <<>>
    /\ registry0 = fileGroups
    /\ batchGroupLimit = 0 /\ groupsProcessed = 0 /\ exit = NotEnded

\* the Oracle answers a generateConversions request in any of the ways above
Init ==
    /\ InitRegistry /\ InitProcess /\ NoFunctionCall
    /\ setup = Uncapped
    /\ oracle = OracleOf(PlainClassifyAnswers, FALSE, FALSE, <<>>)

\* the Oracle answers a classify request in any of the ways above
InitClassify ==
    /\ InitRegistry /\ InitProcess /\ NoFunctionCall
    /\ setup = Uncapped
    /\ oracle = OracleOf(ClassifyAnswers, TRUE, FALSE, <<>>)

\* the Oracle answers the same generateConversions request the same way
InitDeterministic ==
    /\ InitRegistry /\ InitProcess /\ NoFunctionCall
    /\ setup = Uncapped
    /\ \E kinds \in [Units -> AnswerKinds] :
         oracle = OracleOf(PlainClassifyAnswers, FALSE, TRUE, kinds)

\* the Oracle answers every request about a unit the same way
InitFixedOracle ==
    /\ InitRegistry /\ InitProcess /\ NoFunctionCall
    /\ setup = Uncapped
    /\ \E classes \in [Units -> PlainClassifyAnswers] : \E kinds \in [Units -> AnswerKinds] :
         oracle = FixedOracle(classes, kinds)

LengthName == <<"L", "e", "n", "g", "t", "h">>

\* a registry of two library groups without conversions, units 1 and 2 in
\* 'Mass', units 3 and 4 in 'Length', the others without a group; every
\* invocation is given no cap or a cap of one or two groups, and the Oracle
\* fails or answers what it was asked
InitTwoGroups ==
    /\ fileUnits = [u \in 1..TwoGroupUnits |->
                       IF u <= 2 THEN GroupIdOf(MassName)
                       ELSE IF u <= 4 THEN GroupIdOf(LengthName) ELSE NoGroup]
    /\ fileGroups = <<Group(GroupIdOf(MassName), MassName, <<1, 2>>, <<>>),
                      Group(GroupIdOf(LengthName), LengthName, <<3, 4>>, <<>>)>>
    /\ InitProcess /\ NoFunctionCall
    /\ setup = [caps |-> {0, 1, 2}, invocations |-> MaxInvocations]
    /\ oracle = OracleOf(PlainClassifyAnswers, TRUE, FALSE, <<>>)

files == <<fileUnits, fileGroups, fileCp>>

history == <<oracle, registry0, setup>>

runVars == <<batchGroupLimit, groupsProcessed, exit>>

\* lines 167-185
Start ==
    /\ pc \in {"idle", "done", "aborted"}
    /\ runs < setup.invocations
    /\ runs' = runs + 1
    /\ batchGroupLimit' \in setup.caps
    /\ groupsProcessed' = 0
    /\ exit' = NotEnded
    /\ allUnits' = fileUnits
    /\ unitGroups' = fileGroups
    /\ checkpoint' = loadCheckpoint(fileCp)
    /\ loaded' = loadCheckpoint(fileCp)
    /\ unmapped' = Unmapped(fileUnits)
    /\ pc' = IF ~loadCheckpoint(fileCp).classificationComplete /\ Unmapped(fileUnits) # <<>>
             THEN "classify" ELSE "merge"
    /\ needing' = <<>> /\ groupAt' = 0 /\ toProcess' = <<>> /\ batchAt' = 0
    /\ inflight' = {} /\ answers' = <<>> /\ resultAt' = 0 /\ asked' = {}
    /\ UNCHANGED <<files, history, callVars>>

\* what a classify request is recorded under in asked
Classify == <<"classify">>

\* lines 188-189: the calls of one batch are issued together
ClassifyIssue ==
    /\ pc = "classify"
    /\ inflight' = Range(Batch(unmapped, batchAt))
    /\ answers' = <<>>
    /\ asked' = asked \cup {<<Classify, u>> : u \in Range(Batch(unmapped, batchAt))}
    /\ pc' = "classify wait"
    /\ UNCHANGED <<files, history, callVars, runVars,
                   allUnits, unitGroups, checkpoint, unmapped,
                   needing, groupAt, toProcess, batchAt, resultAt, runs, loaded>>

\* one call of the batch settles (lines 117-123)
ClassifyAnswer ==
    /\ pc = "classify wait"
    /\ \E u \in inflight : \E a \in NamesFor(u) :
         /\ answers' = answers @@ (u :> classifyUnit(a))
         /\ inflight' = inflight \ {u}
    /\ UNCHANGED <<files, history, callVars, runVars,
                   pc, allUnits, unitGroups, checkpoint, unmapped,
                   needing, groupAt, toProcess, batchAt, resultAt, runs, asked, loaded>>

\* lines 192-194 for one unit: the id is pushed on the list of its group name
PushClassified(classified, name, unit) ==
    LET hits == {n \in DOMAIN classified : classified[n].name = name}
    IN  IF hits = {} THEN Append(classified, [name |-> name, ids |-> <<unit>>])
        ELSE [classified EXCEPT ![MinOf(hits)].ids = Append(@, unit)]

\* lines 191-195
RECURSIVE PushBatch(_, _, _)
PushBatch(classified, batch, names) ==
    IF batch = <<>> THEN classified
    ELSE PushBatch(PushClassified(classified, names[batch[1]], batch[1]), Tail(batch), names)

\* lines 190-198: the barrier, the merge of the batch and the checkpoint write
ClassifyMerge ==
    /\ pc = "classify wait"
    /\ inflight = {}
    /\ checkpoint' = [checkpoint EXCEPT !.groupsClassified =
                          PushBatch(@, Batch(unmapped, batchAt), answers)]
    /\ fileCp' = checkpoint'
    /\ batchAt' = batchAt + BatchSize
    /\ answers' = <<>>
    /\ pc' = IF batchAt + BatchSize < Len(unmapped) THEN "classify" ELSE "classified"
    /\ UNCHANGED <<fileUnits, fileGroups, history, callVars, runVars,
                   allUnits, unitGroups, unmapped,
                   needing, groupAt, toProcess, inflight, resultAt, runs, asked, loaded>>

\* lines 200-201
ClassifyComplete ==
    /\ pc = "classified"
    /\ checkpoint' = [checkpoint EXCEPT !.classificationComplete = TRUE]
    /\ fileCp' = checkpoint'
    /\ batchAt' = 0
    /\ pc' = "merge"
    /\ UNCHANGED <<fileUnits, fileGroups, history, callVars, runVars,
                   allUnits, unitGroups, unmapped,
                   needing, groupAt, toProcess, inflight, answers, resultAt, runs, asked,
                   loaded>>

\* the merge of one entry without lines 216-220: the units of the entry
\* keep the unitGroupId they have
MergeEntryNoAssign(reg, entry) ==
    LET groupId == GroupIdOf(entry.name)
        hits == {n \in DOMAIN reg.groups : reg.groups[n].id = groupId}
    IN  [groups |-> IF hits = {}
                    THEN Append(reg.groups, Group(groupId, entry.name, entry.ids, <<>>))
                    ELSE [reg.groups EXCEPT ![MinOf(hits)].unitIds = Dedupe(@ \o entry.ids)],
         units |-> reg.units]

\* lines 207-220 for one entry of groupsClassified
MergeEntry(reg, entry) ==
    LET groupId == GroupIdOf(entry.name)
        hits == {n \in DOMAIN reg.groups : reg.groups[n].id = groupId}
    IN  [groups |-> IF hits = {}
                    THEN Append(reg.groups, Group(groupId, entry.name, entry.ids, <<>>))
                    ELSE [reg.groups EXCEPT ![MinOf(hits)].unitIds = Dedupe(@ \o entry.ids)],
         units |-> [u \in DOMAIN reg.units |->
                       IF Contains(entry.ids, u) THEN groupId ELSE reg.units[u]]]

\* lines 206-221: Object.entries visits the names in the order they were added
RECURSIVE MergeEntries(_, _)
MergeEntries(reg, entries) ==
    IF entries = <<>> THEN reg
    ELSE MergeEntries(MergeEntry(reg, entries[1]), Tail(entries))

\* lines 222-227, for one group
NeedsConversions(group, cp) ==
    /\ ~Contains(cp.conversionsGroupsCompleted, group.id)
    /\ Len(group.conversions) < Len(GroupUnits(group)) * (Len(GroupUnits(group)) - 1)
    /\ Len(GroupUnits(group)) >= 2

\* lines 206-229
MergeGroups ==
    /\ pc = "merge"
    /\ LET reg == MergeEntries([groups |-> unitGroups, units |-> allUnits],
                               checkpoint.groupsClassified)
       IN  /\ unitGroups' = reg.groups
           /\ allUnits' = reg.units
           /\ needing' = SelectSeq([n \in DOMAIN reg.groups |-> n],
                                   LAMBDA n : NeedsConversions(reg.groups[n], checkpoint))
    /\ groupAt' = 1
    /\ pc' = "group"
    /\ UNCHANGED <<files, history, callVars, runVars,
                   checkpoint, unmapped, toProcess, batchAt,
                   inflight, answers, resultAt, runs, asked, loaded>>

\* the group the loop of line 230 is at
CurrentGroup == unitGroups[needing[groupAt]]

\* the filter ignores which group the completed units belong to
UnitsToProcessAll(group, cp) == GroupUnits(group)

\* lines 236-238
UnitsToProcess(group, cp) ==
    IF cp.currentConversionGroupId = group.id
    THEN SelectSeq(GroupUnits(group), LAMBDA u : ~Contains(cp.unitsCompleted, u))
    ELSE GroupUnits(group)

\* the cap is not tested
LimitNeverReached == FALSE

\* line 231
LimitReached == batchGroupLimit # 0 /\ groupsProcessed >= batchGroupLimit

\* lines 240-243: nothing is left to process in the group
SkipGroup ==
    /\ pc = "group"
    /\ groupAt <= Len(needing)
    /\ ~LimitReached
    /\ UnitsToProcess(CurrentGroup, checkpoint) = <<>>
    /\ groupAt' = groupAt + 1
    /\ UNCHANGED <<files, history, callVars, runVars,
                   pc, allUnits, unitGroups, checkpoint, unmapped,
                   needing, toProcess, batchAt, inflight, answers, resultAt, runs, asked,
                   loaded>>

\* lines 235-245
EnterGroup ==
    /\ pc = "group"
    /\ groupAt <= Len(needing)
    /\ ~LimitReached
    /\ UnitsToProcess(CurrentGroup, checkpoint) # <<>>
    /\ toProcess' = UnitsToProcess(CurrentGroup, checkpoint)
    /\ batchAt' = 0
    /\ pc' = "convert"
    /\ UNCHANGED <<files, history, callVars, runVars,
                   allUnits, unitGroups, checkpoint, unmapped,
                   needing, groupAt, inflight, answers, resultAt, runs, asked, loaded>>

\* lines 247-250: the calls of one batch are issued together
ConvIssue ==
    /\ pc = "convert"
    /\ inflight' = Range(Batch(toProcess, batchAt))
    /\ answers' = <<>>
    /\ asked' = asked \cup {<<CurrentGroup.id, u>> : u \in Range(Batch(toProcess, batchAt))}
    /\ pc' = "convert wait"
    /\ UNCHANGED <<files, history, callVars, runVars,
                   allUnits, unitGroups, checkpoint, unmapped,
                   needing, groupAt, toProcess, batchAt, resultAt, runs, loaded>>

\* the results are taken as soon as the first call of the batch has settled
FirstSettled(pending) == Batch(toProcess, batchAt)[1] \notin pending

\* line 254: Promise.all resolves when no call of the batch is pending
AllSettled(pending) == pending = {}

\* lines 250-252: one call of the batch settles and its edges are validated;
\* line 254: when the last one has settled the loop of line 255 starts
ConvAnswer ==
    /\ pc = "convert wait"
    /\ \E u \in inflight : \E a \in AnswersFor(u, GroupUnits(CurrentGroup)) :
         /\ answers' = answers @@ (u :> ValidEdges(a, u, GroupUnits(CurrentGroup)))
         /\ inflight' = inflight \ {u}
         /\ pc' = IF AllSettled(inflight \ {u}) THEN "results" ELSE "convert wait"
    /\ resultAt' = 1
    /\ UNCHANGED <<files, history, callVars, runVars,
                   allUnits, unitGroups, checkpoint, unmapped,
                   needing, groupAt, toProcess, batchAt, runs, asked, loaded>>

\* the results of the batch taken last first
ResultUnitLastFirst ==
    Batch(toProcess, batchAt)[Len(Batch(toProcess, batchAt)) + 1 - resultAt]

\* the unit whose result the loop of line 255 is at
ResultUnit == Batch(toProcess, batchAt)[resultAt]

\* lines 256-272: the edges of one unit are merged, the unit is recorded as
\* completed and the checkpoint is written
MergeResult ==
    /\ pc = "results"
    /\ unitGroups' = [unitGroups EXCEPT ![needing[groupAt]].conversions =
                          MergeEdges(@, ResultUnit, answers[ResultUnit],
                                     GroupUnits(CurrentGroup))]
    /\ checkpoint' = [checkpoint EXCEPT !.unitsCompleted = Append(@, ResultUnit),
                                        !.currentConversionGroupId = CurrentGroup.id]
    /\ fileCp' = checkpoint'
    /\ pc' = "save"
    /\ UNCHANGED <<fileUnits, fileGroups, history, callVars, runVars,
                   allUnits, unmapped, needing,
                   groupAt, toProcess, batchAt, inflight, answers, resultAt, runs, asked,
                   loaded>>

\* line 273, then the next result (line 255), the next batch (line 246) or
\* the end of the group
SaveData ==
    /\ pc = "save"
    /\ fileUnits' = allUnits
    /\ fileGroups' = unitGroups
    /\ IF resultAt < Len(Batch(toProcess, batchAt))
       THEN /\ resultAt' = resultAt + 1
            /\ pc' = "results"
            /\ UNCHANGED <<batchAt, answers>>
       ELSE /\ resultAt' = 0
            /\ answers' = <<>>
            /\ batchAt' = batchAt + BatchSize
            /\ pc' = IF batchAt + BatchSize < Len(toProcess) THEN "convert" ELSE "completed"
    /\ UNCHANGED <<fileCp, history, callVars, runVars,
                   allUnits, unitGroups, checkpoint, unmapped,
                   needing, groupAt, toProcess, inflight, runs, asked, loaded>>

\* lines 278-283
CompleteGroup ==
    /\ pc = "completed"
    /\ checkpoint' = [checkpoint EXCEPT
                          !.conversionsGroupsCompleted = Append(@, CurrentGroup.id),
                          !.currentConversionGroupId = Null,
                          !.unitsCompleted = <<>>]
    /\ fileCp' = checkpoint'
    /\ groupAt' = groupAt + 1
    /\ toProcess' = <<>>
    /\ batchAt' = 0
    /\ pc' = "group"
    /\ groupsProcessed' = groupsProcessed + 1
    /\ UNCHANGED <<fileUnits, fileGroups, history, callVars, allUnits, unitGroups, unmapped,
                   needing, inflight, answers, resultAt, runs, asked, loaded,
                   batchGroupLimit, exit>>

\* lines 231-234 and 285-287: the loop ends or the cap stops it
Finish ==
    /\ pc = "group"
    /\ groupAt > Len(needing) \/ LimitReached
    /\ fileUnits' = allUnits
    /\ fileGroups' = unitGroups
    /\ pc' = "done"
    /\ exit' = Ended("zero", "nothing")
    /\ UNCHANGED <<fileCp, history, callVars, allUnits, unitGroups, checkpoint, unmapped,
                   needing, groupAt, toProcess, batchAt, inflight, answers, resultAt, runs,
                   asked, loaded, batchGroupLimit, groupsProcessed>>

\* the process is stopped: what it held in memory is lost, the files stay
Interrupt ==
    /\ pc \notin {"none", "idle", "done", "aborted"}
    /\ runs <= MaxCrashes
    /\ pc' = "idle"
    /\ allUnits' = <<>> /\ unitGroups' = <<>> /\ checkpoint' = <<>> /\ unmapped' = <<>>
    /\ needing' = <<>> /\ groupAt' = 0 /\ toProcess' = <<>> /\ batchAt' = 0
    /\ inflight' = {} /\ answers' = <<>> /\ resultAt' = 0 /\ asked' = {} /\ loaded' = <<>>
    /\ batchGroupLimit' = 0 /\ groupsProcessed' = 0
    /\ exit' = Ended("killed", "nothing")
    /\ UNCHANGED <<files, history, callVars, runs>>

\* the loop over the groups without the test of line 340: closure runs on
\* every group
CompleteGroupsAlways(groups) ==
    [n \in DOMAIN groups |->
        [groups[n] EXCEPT !.conversions =
             generateCompleteConversions(GroupUnits(groups[n]), @)]]

\* main.ts lines 331-361: the loop over the groups of the registry
CompleteGroups(groups) ==
    [n \in DOMAIN groups |->
        LET group == groups[n]
            groupUnits == GroupUnits(group)
        IN  IF Len(group.conversions) < Len(groupUnits) * (Len(groupUnits) - 1)
            THEN [group EXCEPT !.conversions = generateCompleteConversions(groupUnits, @)]
            ELSE group]

\* main.ts lines 313-388: the closure tool, run while the generator is not
\* running; it rewrites the registry file once, at its end
ensureCompleteConversions ==
    /\ pc \in {"idle", "done", "aborted"}
    /\ fileGroups' = CompleteGroups(fileGroups)
    /\ UNCHANGED <<fileUnits, fileCp, history, callVars, runVars,
                   pc, allUnits, unitGroups, checkpoint,
                   unmapped, needing, groupAt, toProcess, batchAt, inflight, answers,
                   resultAt, runs, asked, loaded>>

(***************************************************************************)
(* An Oracle call of a Phase 2 batch that returns JSON which is not an     *)
(* array of objects.  askClaudeJSON (src/unnamed/part_005 lines 52-75)     *)
(* returns whatever JSON.parse returns, and generateConversionsFromUnit    *)
(* (lines 134-145) hands it on; the callback of line 248 then runs         *)
(* conversions.map(c => validateConversion(c, ...)) outside any try.       *)
(***************************************************************************)
WrongShapeAnswers ==
    {[shape |-> "object"], [shape |-> "null"], [shape |-> "array with null"],
     [shape |-> "array with number"]}

\* line 251 throws a TypeError: conversions.map is not a function (an
\* object), cannot read properties of null (null), or, inside
\* validateConversion, line 126 reads conv.from of a null element; a number
\* element has no from and is dropped by line 127
MapperThrows(answer) == answer.shape \in {"object", "null", "array with null"}

\* one call of the batch settles with such an answer.  When the callback
\* throws, Promise.all (line 254) rejects, main rejects and the process ends
\* in main().catch (line 289): nothing of the batch is merged or written.
ConvAnswerWrongShape ==
    /\ pc = "convert wait"
    /\ \E u \in inflight : \E a \in WrongShapeAnswers :
         IF MapperThrows(a)
         THEN /\ pc' = "aborted"
              /\ allUnits' = <<>> /\ unitGroups' = <<>> /\ checkpoint' = <<>>
              /\ unmapped' = <<>> /\ needing' = <<>> /\ groupAt' = 0 /\ toProcess' = <<>>
              /\ batchAt' = 0 /\ inflight' = {} /\ answers' = <<>> /\ resultAt' = 0
              /\ asked' = {} /\ loaded' = <<>>
              /\ batchGroupLimit' = 0 /\ groupsProcessed' = 0
              /\ exit' = Ended("zero", "oracle answer")
         ELSE /\ answers' = answers @@ (u :> <<>>)
              /\ inflight' = inflight \ {u}
              /\ pc' = IF inflight = {u} THEN "results" ELSE "convert wait"
              /\ resultAt' = 1
              /\ UNCHANGED <<allUnits, unitGroups, checkpoint, unmapped, needing, groupAt,
                             toProcess, batchAt, asked, loaded, runVars>>
    /\ UNCHANGED <<files, history, callVars, runs>>

NextGenerator ==
    \/ Start \/ ClassifyIssue \/ ClassifyAnswer \/ ClassifyMerge \/ ClassifyComplete
    \/ MergeGroups \/ SkipGroup \/ EnterGroup \/ ConvIssue \/ ConvAnswer \/ MergeResult
    \/ SaveData \/ CompleteGroup \/ Finish \/ Interrupt

Next == NextGenerator \/ ensureCompleteConversions

Spec == Init /\ [][Next]_vars

SpecClassify == InitClassify /\ [][Next]_vars

SpecDeterministic == InitDeterministic /\ [][NextGenerator]_vars

SpecFixedOracle == InitFixedOracle /\ [][NextGenerator]_vars

SpecTwoGroups == InitTwoGroups /\ [][NextGenerator]_vars

NextWrongShape == NextGenerator \/ ConvAnswerWrongShape

SpecWrongShape == Init /\ [][NextWrongShape]_vars

NotRun == <<"not run">>

(***************************************************************************)
(* The closure function on its own: a group of up to ClosureUnits units    *)
(* with up to MaxDirectEdges conversions between distinct units of the     *)
(* group, each with multiplier 2 or 1/2.                                   *)
(***************************************************************************)
ClosureMultipliers == {Frac(2, 1), Frac(1, 2)}

DirectPairs(n) == {p \in (1..n) \X (1..n) : p[1] # p[2]}

\* a set of pairs as a list, ordered by (from, to)
PairSeq(P, n) ==
    LET code(p) == p[1] * (n + 1) + p[2]
        codes == SortedSeq({code(p) : p \in P})
    IN  [x \in DOMAIN codes |-> <<codes[x] \div (n + 1), codes[x] % (n + 1)>>]

NoGenerator ==
    /\ fileUnits = <<>> /\ fileGroups = <<>> /\ fileCp = NoFile /\ pc = "none"
    /\ allUnits = <<>> /\ unitGroups = <<>> /\ checkpoint = <<>> /\ unmapped = <<>>
    /\ needing = <<>> /\ groupAt = 0 /\ toProcess = <<>> /\ batchAt = 0
    /\ inflight = {} /\ answers = <<>> /\ resultAt = 0 /\ runs = 0 /\ asked = {}
    /\ loaded = <<>> /\ oracle = <<>> /\ registry0 = <<>>
    /\ setup = <<>> /\ batchGroupLimit = 0 /\ groupsProcessed = 0 /\ exit = NotEnded

\* 2, 3 and their inverses
RatioMultipliers == {Frac(2, 1), Frac(1, 2), Frac(3, 1), Frac(1, 3)}

\* a group of up to maxUnits units with up to maxEdges conversions between
\* distinct units, at most one per ordered pair, with multipliers from mults
ClosureInput(maxUnits, maxEdges, mults) ==
    /\ NoGenerator
    /\ NoCollectorCall
    /\ \E n \in 0..maxUnits :
         /\ clUnits = [x \in 1..n |-> x]
         /\ \E P \in SUBSET DirectPairs(n) :
              /\ Cardinality(P) <= maxEdges
              /\ \E mult \in [P -> mults] :
                   clExisting = [x \in 1..Cardinality(P) |->
                                   LET p == PairSeq(P, n)[x]
                                   IN  Conv(<<"registry", p[1], p[2]>>, p[1], p[2], mult[p],
                                            EquationOf(mult[p]))]
    /\ clOut = NotRun
    /\ clPc = "input"
    /\ clWarnings = <<>>

RunClosure ==
    /\ clPc = "input"
    /\ clOut' = generateCompleteConversions(clUnits, clExisting)
    /\ clPc' = "done"
    /\ UNCHANGED <<clUnits, clExisting, clWarnings, genVars, coVars, fuVars, dupVars,
                 matchVars,
                   askVars, globalVars>>

NextClosure == RunClosure

InitClosure == ClosureInput(ClosureUnits, MaxDirectEdges, ClosureMultipliers)

SpecClosure == InitClosure /\ [][NextClosure]_vars

InitClosureRatios == ClosureInput(RatioUnits, RatioEdges, RatioMultipliers)

\* groups large enough for two chains between a pair of units that has no
\* conversion
InitClosureChains == ClosureInput(ClosureUnits, RatioEdges, {Frac(2, 1), Frac(3, 1)})

SpecClosureChains == InitClosureChains /\ [][NextClosure]_vars

SpecClosureRatios == InitClosureRatios /\ [][NextClosure]_vars

(***************************************************************************)
(* loadCheckpoint on its own: every checkpoint file that is unreadable,    *)
(* not JSON, null, or a JSON object in which each of the five fields is    *)
(* absent, empty or filled.                                                *)
(***************************************************************************)
CheckpointFields ==
    {"classificationComplete", "groupsClassified", "conversionsGroupsCompleted",
     "currentConversionGroupId", "unitsCompleted"}

FieldValue(field, choice) ==
    CASE field = "classificationComplete" -> choice = "filled"
      [] field = "groupsClassified" ->
             IF choice = "filled" THEN <<[name |-> MassName, ids |-> <<1>>]>> ELSE <<>>
      [] field = "conversionsGroupsCompleted" ->
             IF choice = "filled" THEN <<GroupIdOf(MassName)>> ELSE <<>>
      [] field = "currentConversionGroupId" ->
             IF choice = "filled" THEN GroupIdOf(MassName) ELSE Null
      [] OTHER -> IF choice = "filled" THEN <<1>> ELSE <<>>

JsonObject(choices) ==
    [f \in {g \in CheckpointFields : choices[g] # "absent"} |-> FieldValue(f, choices[f])]

InitLoad ==
    /\ NoFunctionCall
    /\ fileUnits = <<>> /\ fileGroups = <<>> /\ pc = "load"
    /\ allUnits = <<>> /\ unitGroups = <<>> /\ checkpoint = <<>> /\ unmapped = <<>>
    /\ needing = <<>> /\ groupAt = 0 /\ toProcess = <<>> /\ batchAt = 0
    /\ inflight = {} /\ answers = <<>> /\ resultAt = 0 /\ runs = 0 /\ asked = {}
    /\ loaded = <<>> /\ oracle = <<>> /\ registry0 = <<>>
    /\ setup = <<>> /\ batchGroupLimit = 0 /\ groupsProcessed = 0 /\ exit = NotEnded
    /\ \/ fileCp = NoFile
       \/ fileCp = Unreadable
       \/ fileCp = NotJson
       \/ fileCp = JsonNull
       \/ \E choices \in [CheckpointFields -> {"absent", "empty", "filled"}] :
              fileCp = JsonObject(choices)

\* line 175: const checkpoint = loadCheckpoint()
RunLoad ==
    /\ pc = "load"
    /\ checkpoint' = loadCheckpoint(fileCp)
    /\ pc' = "loaded"
    /\ UNCHANGED <<fileUnits, fileGroups, fileCp, allUnits, unitGroups, unmapped, needing,
                   groupAt, toProcess, batchAt, inflight, answers, resultAt, runs, asked,
                   loaded, history, callVars, runVars>>

NextLoad == RunLoad

SpecLoad == InitLoad /\ [][NextLoad]_vars

(***************************************************************************)
(* validateConversions, main.ts lines 284-308, and the body of the tool's  *)
(* loop for one group, lines 332-360.                                      *)
(***************************************************************************)
\* Math.abs(product - 1.0) < 0.01
NearOne(product) ==
    LET diff == IF product[1] >= product[2] THEN product[1] - product[2]
                ELSE product[2] - product[1]
    IN  100 * diff < product[2]

InverseMismatch == "Inverse mismatch"

MissingReverse == "Missing reverse"

\* lines 288-304 for the conversions from position n on: the warnings
\* printed, in order
RECURSIVE validateConversions(_, _)
validateConversions(conversions, n) ==
    IF n > Len(conversions) THEN <<>>
    ELSE LET conv == conversions[n]
             reverse == FindConv(conversions, conv.toUnitId, conv.fromUnitId)
             rest == validateConversions(conversions, n + 1)
         IN  IF reverse = 0
             THEN <<<<MissingReverse, conv.fromUnitId, conv.toUnitId>>>> \o rest
             ELSE IF NearOne(Times(conv.multiplier, conversions[reverse].multiplier))
             THEN rest
             ELSE <<<<InverseMismatch, conv.fromUnitId, conv.toUnitId>>>> \o rest

\* lines 332-360 for one group
RunToolOnGroup ==
    /\ clPc = "input"
    /\ IF Len(clExisting) < Len(clUnits) * (Len(clUnits) - 1)
       THEN /\ clOut' = generateCompleteConversions(clUnits, clExisting)
            /\ clWarnings' = validateConversions(clOut', 1)
       ELSE /\ clOut' = clExisting
            /\ clWarnings' = <<>>
    /\ clPc' = "done"
    /\ UNCHANGED <<clUnits, clExisting, genVars, coVars, fuVars, dupVars, matchVars,
                   askVars, globalVars>>

NextToolOnGroup == RunToolOnGroup

SpecToolOnGroup == InitClosureRatios /\ [][NextToolOnGroup]_vars

(***************************************************************************)
(* The collector on its own, linkUnits.js lines 249-269 for one unit of a  *)
(* group without conversions: every answer of MaxEdges edges whose fields  *)
(* are drawn from the values below.                                        *)
(***************************************************************************)
RawEdges(u) ==
    {Edge(from, to, m, eq) :
        from \in {SymbolOf(u), SymbolOf((u % MaxUnits) + 1), Missing},
        to \in {SymbolOf(v) : v \in Units} \cup {UnknownSymbol, Missing},
        m \in {Num(2, 1), Num(1, 2), NumZero, NumNegative, NumInfinity, NumNaN,
               NotANumber, Missing},
        eq \in {TimesTwo, <<" ", "x">>, <<"2">>, Missing}}

InitCollector ==
    /\ NoGenerator
    /\ clUnits = <<>> /\ clExisting = <<>> /\ clOut = <<>> /\ clPc = "none"
    /\ clWarnings = <<>>
    /\ NoFindCall /\ NoCleanupCall
    /\ \E S \in SUBSET Units :
         /\ S # {}
         /\ coGroup = SortedSeq(S)
         /\ coUnit \in S
    /\ coAnswer \in [1..MaxEdges -> RawEdges(coUnit)]
    /\ coOut = <<>>
    /\ coPc = "input"

RunCollector ==
    /\ coPc = "input"
    /\ coOut' = MergeEdges(<<>>, coUnit, ValidEdges(coAnswer, coUnit, coGroup), coGroup)
    /\ coPc' = "done"
    /\ UNCHANGED <<genVars, clUnits, clExisting, clOut, clPc, clWarnings, coUnit, coGroup,
                   coAnswer, fuVars, dupVars, matchVars,
                   askVars, globalVars>>

NextCollector == RunCollector

SpecCollector == InitCollector /\ [][NextCollector]_vars

(***************************************************************************)
(* C1.  A group that the generator has processed, in a behaviour where the *)
(* process was stopped at any step and invoked again until it finished,    *)
(* ends with the (fromUnitId, toUnitId, multiplier) triples that one       *)
(* uninterrupted run over all its units produces, the Oracle answering     *)
(* every request the same way each time it is asked.                       *)
(***************************************************************************)
\* the conversions the registry held for the group before the first run
InitialConversions(groupId) ==
    LET hits == {n \in DOMAIN registry0 : registry0[n].id = groupId}
    IN  IF hits = {} THEN <<>> ELSE registry0[MinOf(hits)].conversions

\* lines 246-274 without a stop: the answers of the group's units merged in
\* the order of the group, from position n on
RECURSIVE UninterruptedRun(_, _, _)
UninterruptedRun(convs, groupUnits, n) ==
    IF n > Len(groupUnits) THEN convs
    ELSE LET u == groupUnits[n]
             valid == ValidEdges(AnswerOfKind(oracle.kinds[u], u, groupUnits), u, groupUnits)
             next == MergeEdges(convs, u, valid, groupUnits)
         IN  IF next = convs THEN UninterruptedRun(convs, groupUnits, n + 1)
             ELSE UninterruptedRun(next, groupUnits, n + 1)

C1_InterruptedRunEqualsUninterruptedRun ==
    pc = "done" =>
        \A n \in DOMAIN fileGroups :
            Contains(checkpoint.conversionsGroupsCompleted, fileGroups[n].id) =>
                Triples(fileGroups[n].conversions) =
                    Triples(UninterruptedRun(InitialConversions(fileGroups[n].id),
                                             GroupUnits(fileGroups[n]), 1))

(***************************************************************************)
(* C2.  An invocation that starts from a persisted checkpoint issues no    *)
(* generateConversions request for a group listed in                       *)
(* conversionsGroupsCompleted, and for the group that was in progress      *)
(* (currentConversionGroupId) it issues requests exactly for the units of  *)
(* the group that are not in unitsCompleted.                               *)
(***************************************************************************)
\* the generateConversions requests of the current invocation
ConversionRequests == {r \in asked : r[1] # Classify}

\* the units the current invocation has requested conversions for on behalf
\* of the group
RequestedFor(groupId) == {r[2] : r \in {x \in ConversionRequests : x[1] = groupId}}

\* the units of the group with the id that the loaded checkpoint does not
\* list as completed
RemainingUnits(groupId) ==
    {u \in Units : /\ \E n \in DOMAIN unitGroups :
                        unitGroups[n].id = groupId /\ Contains(unitGroups[n].unitIds, u)
                   /\ ~Contains(loaded.unitsCompleted, u)}

RECURSIVE ClassifiedIds(_)
ClassifiedIds(classified) ==
    IF classified = <<>> THEN <<>>
    ELSE classified[1].ids \o ClassifiedIds(Tail(classified))

C3_ClassifiedUnitsAreSkippedOnRestart ==
    /\ \A u \in Units :
           <<Classify, u>> \in asked => ~Contains(ClassifiedIds(loaded.groupsClassified), u)
    /\ pc \in {"classify", "classify wait", "classified", "merge"} =>
           NoDuplicates(ClassifiedIds(checkpoint.groupsClassified))

(***************************************************************************)
(* C4.  After any classification batches, stops and resumes, once the      *)
(* group merge of Phase 2 has run no group lists an id twice and every id  *)
(* a group lists is that of a unit whose unitGroupId is the group's id, so *)
(* no unit is a member of two groups.                                      *)
(***************************************************************************)
\* the group merge of lines 206-221 has run in the current invocation
Merged == pc \in {"group", "convert", "convert wait", "results", "save", "completed", "done"}

C4_GroupMembershipMatchesUnitGroupId ==
    Merged =>
        \A n \in DOMAIN unitGroups :
            /\ NoDuplicates(unitGroups[n].unitIds)
            /\ \A x \in DOMAIN unitGroups[n].unitIds :
                   allUnits[unitGroups[n].unitIds[x]] = unitGroups[n].id

(***************************************************************************)
(* C5.  Once classification has completed and the group merge has run,     *)
(* every unit that had no group has a non-empty unitGroupId, and exactly   *)
(* one group of the registry has that id, whatever the Oracle answered to  *)
(* the classify requests: a name, an empty name, or a failure, which falls *)
(* back to the group 'Uncategorized'.                                      *)
(***************************************************************************)
\* the unit was in no group of the registry before the first run
Unclassified(u) == \A n \in DOMAIN registry0 : ~Contains(registry0[n].unitIds, u)

C5_EveryUnitHasOneGroupAfterClassification ==
    (Merged /\ checkpoint.classificationComplete) =>
        \A u \in Units :
            Unclassified(u) =>
                /\ allUnits[u] # NoGroup
                /\ Cardinality({n \in DOMAIN unitGroups : unitGroups[n].id = allUnits[u]}) = 1
                /\ \E n \in DOMAIN unitGroups :
                       unitGroups[n].id = allUnits[u] /\ Contains(unitGroups[n].unitIds, u)

\* a failed call and an empty name in the same run: one unit is in
\* 'Uncategorized', another in the group of the empty name
C5_Witness ==
    /\ Merged /\ checkpoint.classificationComplete
    /\ \E u, v \in Units :
         /\ Unclassified(u) /\ Unclassified(v)
         /\ allUnits[u] = <<"u", "g", "-">> \o ReplaceRuns(ToLowerCase(Uncategorized))
         /\ allUnits[v] = <<"u", "g", "-">>

(***************************************************************************)
(* C6.  Conversion generation does not start before classification has     *)
(* completed for all units: no generateConversions request is issued in a  *)
(* state where the checkpoint's classificationComplete is false or where   *)
(* some unit still has no group.                                           *)
(***************************************************************************)
\* generateConversions requests have just been issued and not all settled
RequestsInFlight == pc = "convert wait"

OnePerPair(convs) ==
    \A a, b \in DOMAIN convs :
        (convs[a].fromUnitId = convs[b].fromUnitId /\ convs[a].toUnitId = convs[b].toUnitId)
            => a = b

C7_AtMostOneEquationPerPair ==
    /\ \A n \in DOMAIN fileGroups : OnePerPair(fileGroups[n].conversions)
    /\ \A n \in DOMAIN unitGroups : OnePerPair(unitGroups[n].conversions)

\* the result just merged holds a validated edge for a pair that the list
\* has with another multiplier: the edge was not added
C7_Witness ==
    /\ pc = "save"
    /\ \E x \in DOMAIN answers[ResultUnit] : \E c \in Range(CurrentGroup.conversions) :
         /\ c.fromUnitId = ResultUnit
         /\ SymbolOf(c.toUnitId) = answers[ResultUnit][x].to
         /\ c.multiplier # answers[ResultUnit][x].multiplier

(***************************************************************************)
(* C8.  A group of N units never holds more than N x (N - 1) conversions,  *)
(* in memory or in the registry file, after any collector merges of        *)
(* validated Oracle answers and any closure runs.                          *)
(***************************************************************************)
WithinPairBound(group) ==
    Len(group.conversions) <= Len(GroupUnits(group)) * (Len(GroupUnits(group)) - 1)

C8_ConversionCountWithinPairBound ==
    /\ \A n \in DOMAIN fileGroups : WithinPairBound(fileGroups[n])
    /\ \A n \in DOMAIN unitGroups : WithinPairBound(unitGroups[n])

(***************************************************************************)
(* C9.  An edge of the Oracle's answer for unit u of a group is merged     *)
(* only if its from is u's symbol, its to is the symbol of a unit of the   *)
(* group other than u, its multiplier is a positive finite number and its  *)
(* equation is present and has the variable; every other edge is dropped   *)
(* and never reaches the group's conversion list.                          *)
(***************************************************************************)
Admissible(edge, u, groupUnits) ==
    /\ edge.from = SymbolOf(u)
    /\ \E v \in Range(Siblings(u, groupUnits)) : edge.to = SymbolOf(v)
    /\ Len(edge.multiplier) = 3 /\ edge.multiplier[1] = "number"
    /\ Contains(edge.equation, "x")

C9_OnlyAdmissibleEdgesAreMerged ==
    coPc = "done" =>
        \A n \in DOMAIN coOut :
            \E x \in DOMAIN coAnswer :
                /\ Admissible(coAnswer[x], coUnit, coGroup)
                /\ coOut[n].fromUnitId = coUnit
                /\ SymbolOf(coOut[n].toUnitId) = coAnswer[x].to
                /\ coOut[n].multiplier = <<coAnswer[x].multiplier[2], coAnswer[x].multiplier[3]>>

(***************************************************************************)
(* C10.  After closure has run on a group, a conversion i -> j between     *)
(* distinct units of the group exists if and only if j is reachable from i *)
(* by composing conversions that existed before the run: the single pass   *)
(* of the triple loop reaches every such pair.                             *)
(***************************************************************************)
\* pairs joined by a chain of at most n existing conversions, built by
\* extending a chain with one existing conversion at a time
RECURSIVE Chains(_, _)
Chains(E, n) ==
    IF n <= 1 THEN E
    ELSE LET shorter == Chains(E, n - 1)
         IN  shorter \cup {<<r[1][1], r[2][2]>> : r \in {x \in shorter \X E : x[1][2] = x[2][1]}}

RECURSIVE PathProducts(_, _)
PathProducts(T, n) ==
    IF n <= 1 THEN T
    ELSE LET shorter == PathProducts(T, n - 1)
         IN  shorter \cup
                 {<<r[1][1], r[2][2], Frac(r[1][3][1] * r[2][3][1], r[1][3][2] * r[2][3][2])>> :
                      r \in {x \in shorter \X T : x[1][2] = x[2][1]}}

\* the conversions of the output for pairs that had none
Derived == {t \in Triples(clOut) : <<t[1], t[2]>> \notin Pairs(clExisting)}

ExampleAB == {<<1, 2, Frac(2, 1)>>, <<2, 3, Frac(3, 1)>>}

ExampleBA == {<<2, 1, Frac(1, 2)>>, <<3, 2, Frac(1, 3)>>}

C12_ClosureToolIsIdempotent ==
    pc \in {"idle", "done"} =>
        /\ CompleteGroups(CompleteGroups(fileGroups)) = CompleteGroups(fileGroups)
        /\ \A n \in DOMAIN fileGroups :
               Len(fileGroups[n].conversions)
                       = Len(GroupUnits(fileGroups[n])) * (Len(GroupUnits(fileGroups[n])) - 1)
                   => CompleteGroups(fileGroups)[n] = fileGroups[n]

\* a registry in which the tool derives a conversion for a group and leaves
\* the group below N x (N - 1), so that a second run enters closure again
C12_Witness ==
    /\ pc \in {"idle", "done"}
    /\ \E n \in DOMAIN fileGroups :
         LET once == CompleteGroups(fileGroups)[n]
         IN  /\ Len(once.conversions) > Len(fileGroups[n].conversions)
             /\ Len(once.conversions) < Len(GroupUnits(once)) * (Len(GroupUnits(once)) - 1)

(***************************************************************************)
(* C13.  After the closure tool has gone over a group, every conversion    *)
(* (i, j, m) of the group that has a reverse (j, i, m') satisfies          *)
(* |m x m' - 1| < 0.01, or an inverse-mismatch warning was printed for the *)
(* pair during the run.                                                    *)
(***************************************************************************)
C13_InverseMismatchIsWarned ==
    clPc = "done" =>
        \A a, b \in DOMAIN clOut :
            (clOut[b].fromUnitId = clOut[a].toUnitId /\ clOut[b].toUnitId = clOut[a].fromUnitId)
                => \/ NearOne(Frac(clOut[a].multiplier[1] * clOut[b].multiplier[1],
                                   clOut[a].multiplier[2] * clOut[b].multiplier[2]))
                   \/ Contains(clWarnings,
                               <<InverseMismatch, clOut[a].fromUnitId, clOut[a].toUnitId>>)

(***************************************************************************)
(* C14.  Whatever one Oracle call of a batch does (it throws, times out,   *)
(* returns text that is not JSON, or returns JSON of the wrong shape: not  *)
(* an array, or an array with an element that is not an object), the run   *)
(* does not fail: the unit contributes no edge, the other units of the     *)
(* batch are merged and checkpointed, and the run goes on.                 *)
(***************************************************************************)
C14_FailedCallDoesNotFailTheRun ==
    /\ pc # "aborted"
    /\ pc = "completed" =>
           \A n \in DOMAIN toProcess : Contains(checkpoint.unitsCompleted, toProcess[n])

(***************************************************************************)
(* C15.  For every content of the checkpoint file that is not a            *)
(* well-formed checkpoint (unreadable, not JSON, or a JSON value in which  *)
(* a checkpoint field is missing), the run starts from the fresh initial   *)
(* checkpoint: classificationComplete false, groupsClassified,             *)
(* conversionsGroupsCompleted and unitsCompleted empty, no current group.  *)
(***************************************************************************)
\* the file holds a JSON object with all five fields
WellFormed(file) == DOMAIN file = CheckpointFields

IsFresh(cp) ==
    /\ DOMAIN cp = CheckpointFields
    /\ \A f \in CheckpointFields : cp[f] = FreshCheckpoint[f]

C15_MalformedCheckpointLoadsFresh ==
    (pc = "loaded" /\ ~WellFormed(fileCp)) => IsFresh(checkpoint)


-----------------------------------------------------------------------------
(* findUnitBySymbol alone (linkUnits.js): a reference and a unit list drawn  *)
(* from small sets, and its result.                                          *)

MaxFindUnits == 2

GPM == <<"G", "P", "M">>

Gpm == <<"g", "p", "m">>

GalMin == <<"g", "a", "l", "/", "m", "i", "n">>

LMin == <<"L", "/", "m", "i", "n">>

FindSymbols == {GPM, Gpm, GalMin, LMin}

FindUnit(symbol, abbreviations) == [symbol |-> symbol, abbreviations |-> abbreviations]

FindUnits ==
    {FindUnit(s, a) : s \in FindSymbols, a \in {<<>>} \cup {<<b>> : b \in FindSymbols}}

\* the predicate with its two toLowerCase tests left out
FindMatchesExact(u, symbol) ==
    \/ u.symbol = symbol
    \/ \E n \in DOMAIN u.abbreviations : u.abbreviations[n] = symbol

\* the predicate handed to units.find
FindMatches(u, symbol) ==
    \/ u.symbol = symbol
    \/ ToLowerCase(u.symbol) = ToLowerCase(symbol)
    \/ \E n \in DOMAIN u.abbreviations :
          \/ u.abbreviations[n] = symbol
          \/ ToLowerCase(u.abbreviations[n]) = ToLowerCase(symbol)

\* position of the unit returned, 0 for null
findUnitBySymbol(symbol, units) ==
    IF symbol = <<>> THEN 0
    ELSE IF \E n \in DOMAIN units : FindMatches(units[n], symbol)
    THEN CHOOSE n \in DOMAIN units :
            /\ FindMatches(units[n], symbol)
            /\ \A m \in 1..(n - 1) : ~FindMatches(units[m], symbol)
    ELSE 0

InitFind ==
    /\ NoGenerator
    /\ clUnits = <<>> /\ clExisting = <<>> /\ clOut = <<>> /\ clPc = "none"
    /\ clWarnings = <<>>
    /\ coUnit = 0 /\ coGroup = <<>> /\ coAnswer = <<>> /\ coOut = <<>> /\ coPc = "none"
    /\ NoCleanupCall
    /\ fuSymbol \in FindSymbols \cup {<<>>}
    /\ \E n \in 0..MaxFindUnits : fuUnits \in [1..n -> FindUnits]
    /\ fuOut = 0
    /\ fuPc = "input"

RunFind ==
    /\ fuPc = "input"
    /\ fuOut' = findUnitBySymbol(fuSymbol, fuUnits)
    /\ fuPc' = "done"
    /\ UNCHANGED <<genVars, clUnits, clExisting, clOut, clPc, clWarnings, coVars, dupVars,
                   fuUnits, fuSymbol, matchVars,
                   askVars, globalVars>>

NextFind == RunFind

SpecFind == InitFind /\ [][NextFind]_vars

-----------------------------------------------------------------------------
(* C16: findUnitBySymbol resolves in a priority order: the first unit whose  *)
(* symbol equals the reference exactly; failing that the first whose symbol  *)
(* equals it ignoring case; failing that the first with an abbreviation      *)
(* equal to it exactly; failing that the first with an abbreviation equal    *)
(* ignoring case; otherwise nothing.                                         *)

FirstUnit(units, test(_)) ==
    IF \E n \in DOMAIN units : test(units[n])
    THEN CHOOSE n \in DOMAIN units : test(units[n]) /\ \A m \in 1..(n - 1) : ~test(units[m])
    ELSE 0

SameLetters(a, b) ==
    /\ Len(a) = Len(b)
    /\ \A n \in DOMAIN a :
          \/ a[n] = b[n]
          \/ \E x \in DOMAIN UpperCase : {a[n], b[n]} = {UpperCase[x], LowerCase[x]}

PriorityOrder(symbol, units) ==
    LET exactSymbol(u) == u.symbol = symbol
        anyCaseSymbol(u) == SameLetters(u.symbol, symbol)
        exactAbbreviation(u) == \E n \in DOMAIN u.abbreviations : u.abbreviations[n] = symbol
        anyCaseAbbreviation(u) ==
            \E n \in DOMAIN u.abbreviations : SameLetters(u.abbreviations[n], symbol)
    IN  IF symbol = <<>> THEN 0
        ELSE IF FirstUnit(units, exactSymbol) # 0 THEN FirstUnit(units, exactSymbol)
        ELSE IF FirstUnit(units, anyCaseSymbol) # 0 THEN FirstUnit(units, anyCaseSymbol)
        ELSE IF FirstUnit(units, exactAbbreviation) # 0
        THEN FirstUnit(units, exactAbbreviation)
        ELSE FirstUnit(units, anyCaseAbbreviation)

C16_LookupFollowsPriorityOrder ==
    fuPc = "done" => fuOut = PriorityOrder(fuSymbol, fuUnits)


-----------------------------------------------------------------------------
(* C17: findUnitBySymbol returns a unit exactly when the reference is not    *)
(* empty and some unit's symbol or one of its abbreviations equals it        *)
(* ignoring case, and the unit returned is such a unit. With the single unit *)
(* GPM abbreviated gal/min, the references GPM, gpm and gal/min resolve to   *)
(* it and L/min resolves to nothing. The unit list is read, never written.   *)

NamedBy(u, symbol) ==
    \/ SameLetters(u.symbol, symbol)
    \/ \E n \in DOMAIN u.abbreviations : SameLetters(u.abbreviations[n], symbol)

ExampleFindUnits == <<FindUnit(GPM, <<GalMin>>)>>

C17_LookupResolvesIffNamedIgnoringCase ==
    fuPc = "done" =>
        /\ fuOut # 0 <=> (fuSymbol # <<>> /\ \E n \in DOMAIN fuUnits : NamedBy(fuUnits[n], fuSymbol))
        /\ fuOut # 0 => fuOut \in DOMAIN fuUnits /\ NamedBy(fuUnits[fuOut], fuSymbol)
        /\ fuUnits = ExampleFindUnits /\ fuSymbol \in {GPM, Gpm, GalMin} => fuOut = 1
        /\ fuUnits = ExampleFindUnits /\ fuSymbol = LMin => fuOut = 0

C17_Witness ==
    /\ fuPc = "done"
    /\ fuUnits = ExampleFindUnits
    /\ fuSymbol = Gpm
    /\ fuOut = 1


-----------------------------------------------------------------------------
(* cleanupDuplicates.js, Stage 1: calculateStringSimilarity and the          *)
(* candidate pairs of findSemanticDuplicates. A spec type is its position in *)
(* the list; a candidate is the pair <<spec1, spec2>> of positions.          *)

MaxSpecs == 3

RECURSIVE SkipWhiteSpace(_)
SkipWhiteSpace(str) ==
    IF str # <<>> /\ str[1] \in WhiteSpace THEN SkipWhiteSpace(Tail(str)) ELSE str

\* str.split(/\s+/) continued with the token cur begun: a run of white space
\* ends the token, empty or not, and the end of the string ends the last one
RECURSIVE SplitFrom(_, _)
SplitFrom(str, cur) ==
    IF str = <<>> THEN <<cur>>
    ELSE IF str[1] \in WhiteSpace THEN <<cur>> \o SplitFrom(SkipWhiteSpace(str), <<>>)
    ELSE SplitFrom(Tail(str), Append(cur, str[1]))

Split(str) == SplitFrom(str, <<>>)

\* new Set(str.toLowerCase().split(/\s+/))
WordSet(str) == {Split(ToLowerCase(str))[n] : n \in DOMAIN Split(ToLowerCase(str))}

\* calculateStringSimilarity(str1, str2) >= percent, in whole numbers
SimilarityAtLeast(str1, str2, percent) ==
    LET intersection == WordSet(str1) \cap WordSet(str2)
        union == WordSet(str1) \cup WordSet(str2)
    IN  100 * Cardinality(intersection) >= percent * Cardinality(union)

StringThreshold == 30

\* Object.entries(byDomain): the domains in the order of their first spec type
RECURSIVE DomainsOf(_)
DomainsOf(specTypes) ==
    IF specTypes = <<>> THEN <<>>
    ELSE LET front == DomainsOf(SubSeq(specTypes, 1, Len(specTypes) - 1))
             domain == specTypes[Len(specTypes)].domain
         IN  IF \E n \in DOMAIN front : front[n] = domain THEN front
             ELSE Append(front, domain)

\* byDomain[domain]: the positions of its spec types, in list order
RECURSIVE ByDomain(_, _, _)
ByDomain(specTypes, domain, n) ==
    IF n > Len(specTypes) THEN <<>>
    ELSE IF specTypes[n].domain = domain
    THEN <<n>> \o ByDomain(specTypes, domain, n + 1)
    ELSE ByDomain(specTypes, domain, n + 1)

\* the two loops over specs[i], specs[j], from the pair (i, j) on
RECURSIVE CandidatesFrom(_, _, _, _)
CandidatesFrom(specTypes, specs, i, j) ==
    IF i > Len(specs) THEN <<>>
    ELSE IF j > Len(specs) THEN CandidatesFrom(specTypes, specs, i + 1, i + 2)
    ELSE IF SimilarityAtLeast(specTypes[specs[i]].primaryName,
                              specTypes[specs[j]].primaryName, StringThreshold)
    THEN <<<<specs[i], specs[j]>>>> \o CandidatesFrom(specTypes, specs, i, j + 1)
    ELSE CandidatesFrom(specTypes, specs, i, j + 1)

RECURSIVE CandidatesOfDomains(_, _, _)
CandidatesOfDomains(specTypes, domains, d) ==
    IF d > Len(domains) THEN <<>>
    ELSE CandidatesFrom(specTypes, ByDomain(specTypes, domains[d], 1), 1, 2)
            \o CandidatesOfDomains(specTypes, domains, d + 1)

findSemanticDuplicatesCandidates(specTypes) ==
    CandidatesOfDomains(specTypes, DomainsOf(specTypes), 1)

Domains == {"HVAC", "PLUMBING"}

PrimaryNames ==
    { <<"a", " ", "b", " ", "c">>, <<"A">>, <<"a", " ", " ", "b">>, <<"a", " ", "d">>,
      <<"d">>, <<" ", "a">> }

SpecTypes == {[domain |-> d, primaryName |-> name] : d \in Domains, name \in PrimaryNames}

NoOtherCall ==
    /\ NoGenerator
    /\ clUnits = <<>> /\ clExisting = <<>> /\ clOut = <<>> /\ clPc = "none"
    /\ clWarnings = <<>>
    /\ coUnit = 0 /\ coGroup = <<>> /\ coAnswer = <<>> /\ coOut = <<>> /\ coPc = "none"
    /\ NoFindCall /\ NoMatcher /\ NoRequest /\ NoGlobalGenerator

InitCandidates ==
    /\ NoOtherCall
    /\ \E n \in 0..MaxSpecs : dupSpecs \in [1..n -> SpecTypes]
    /\ dupCandidates = <<>>
    /\ dupVerdicts = <<>>
    /\ dupGroups = <<>>
    /\ dupPc = "specs" /\ dupSent = <<>> /\ dupReport = NoFile

RunCandidates ==
    /\ dupPc = "specs"
    /\ dupCandidates' = findSemanticDuplicatesCandidates(dupSpecs)
    /\ dupPc' = "candidates"
    /\ UNCHANGED <<genVars, clUnits, clExisting, clOut, clPc, clWarnings, coVars, fuVars,
                   dupSpecs, dupVerdicts, dupGroups, dupSent, dupReport, matchVars,
                   askVars, globalVars>>

NextCandidates == RunCandidates

SpecCandidates == InitCandidates /\ [][NextCandidates]_vars

-----------------------------------------------------------------------------
(* C18: the Stage 1 candidate list holds exactly the unordered pairs of      *)
(* distinct entries of one domain whose primary names have a Jaccard index,  *)
(* over their lower-cased words, of at least 30%; each such pair once; no    *)
(* pair of entries of different domains.                                     *)

RECURSIVE Words(_, _)
Words(str, cur) ==
    LET done == IF cur = <<>> THEN {} ELSE {cur}
    IN  IF str = <<>> THEN done
        ELSE IF str[1] \in WhiteSpace THEN done \cup Words(Tail(str), <<>>)
        ELSE Words(Tail(str), Append(cur, str[1]))

LowerWord(word) ==
    [n \in DOMAIN word |->
        IF \E x \in DOMAIN UpperCase : UpperCase[x] = word[n]
        THEN LowerCase[CHOOSE x \in DOMAIN UpperCase : UpperCase[x] = word[n]]
        ELSE word[n]]

LowerWords(str) == {LowerWord(w) : w \in Words(str, <<>>)}

JaccardAtLeast30(name1, name2) ==
    LET both == LowerWords(name1) \cap LowerWords(name2)
        all == LowerWords(name1) \cup LowerWords(name2)
    IN  all # {} /\ 100 * Cardinality(both) >= 30 * Cardinality(all)

SimilarPairs ==
    { pair \in SUBSET DOMAIN dupSpecs :
        /\ Cardinality(pair) = 2
        /\ \A p, q \in pair : dupSpecs[p].domain = dupSpecs[q].domain
        /\ \E p, q \in pair :
              p # q /\ JaccardAtLeast30(dupSpecs[p].primaryName, dupSpecs[q].primaryName) }

C18_CandidatesAreTheSimilarPairsOfADomain ==
    dupPc = "candidates" =>
        /\ {{dupCandidates[n][1], dupCandidates[n][2]} : n \in DOMAIN dupCandidates}
              = SimilarPairs
        /\ \A n, m \in DOMAIN dupCandidates :
              {dupCandidates[n][1], dupCandidates[n][2]}
                  = {dupCandidates[m][1], dupCandidates[m][2]} => n = m
        /\ \A n \in DOMAIN dupCandidates :
              dupSpecs[dupCandidates[n][1]].domain = dupSpecs[dupCandidates[n][2]].domain


-----------------------------------------------------------------------------
(* cleanupDuplicates.js, Stage 2: batchDetectDuplicates on the candidates of *)
(* Stage 1. dupVerdicts keeps, per batch, what askClaudeJSON returned.       *)

MaxVerdicts == 2

batchSize == 10

DuplicateThreshold == 85

Similarities == {40, 84, 85, 150}

Verdict(pairIndex, areDuplicates, similarity) ==
    [pairIndex |-> pairIndex, areDuplicates |-> areDuplicates, similarity |-> similarity]

\* the objects of the array the Oracle can return for a batch; a pairIndex
\* equal to the number of pairs or beyond is outside the batch
Verdicts == {Verdict(p, d, s) : p \in 0..MaxSpecs, d \in BOOLEAN, s \in Similarities}

\* askClaudeJSON: an array of verdicts, or an exception
OracleResults ==
    {[ok |-> FALSE, results |-> <<>>]}
        \cup {[ok |-> TRUE, results |-> r] :
                r \in UNION {[1..n -> Verdicts] : n \in 0..MaxVerdicts}}

Records(result) == result.areDuplicates \/ result.similarity >= DuplicateThreshold

\* the loop over results from position n on; batch[result.pairIndex] is
\* undefined outside the batch, reading its spec1 throws and the catch of the
\* batch ends the loop
RECURSIVE PushGroups(_, _, _, _)
PushGroups(duplicateGroups, batch, results, n) ==
    IF n > Len(results) THEN duplicateGroups
    ELSE IF ~Records(results[n]) THEN PushGroups(duplicateGroups, batch, results, n + 1)
    ELSE IF results[n].pairIndex + 1 \notin DOMAIN batch THEN duplicateGroups
    ELSE PushGroups(Append(duplicateGroups,
                           [similarity |-> results[n].similarity,
                            specTypes |-> batch[results[n].pairIndex + 1]]),
                    batch, results, n + 1)

DuplicateSpecTypes ==
    {[domain |-> "HVAC", primaryName |-> name] :
        name \in {<<"a", " ", "b", " ", "c">>, <<"A">>, <<"d">>}}

InitDetect ==
    /\ NoOtherCall
    /\ \E n \in 0..MaxSpecs : dupSpecs \in [1..n -> DuplicateSpecTypes]
    /\ dupCandidates = findSemanticDuplicatesCandidates(dupSpecs)
    /\ dupVerdicts = <<>>
    /\ dupGroups = <<>>
    /\ dupPc = "candidates" /\ dupSent = <<>> /\ dupReport = NoFile

\* Math.min
Min(a, b) == IF a < b THEN a ELSE b

\* one pass of the loop over the batches
\* the batch of the loop of lines 24-25 that comes after the batches sent
BatchAfter(sent) ==
    SubSeq(dupCandidates, batchSize * Len(sent) + 1,
           Min(batchSize * Len(sent) + batchSize, Len(dupCandidates)))

\* lines 24-48: the next batch is sliced and sent to the Oracle; the loop
\* awaits the answer before it goes on
DetectIssue ==
    /\ dupPc = "candidates"
    /\ Len(dupSent) = Len(dupVerdicts)
    /\ batchSize * Len(dupSent) < Len(dupCandidates)
    /\ dupSent' = Append(dupSent, BatchAfter(dupSent))
    /\ UNCHANGED <<genVars, clUnits, clExisting, clOut, clPc, clWarnings, coVars, fuVars,
                   dupSpecs, dupCandidates, dupVerdicts, dupGroups, dupPc, dupReport,
                   matchVars,
                   askVars, globalVars>>

\* the counter without the bound of the list's length
CandidatesAnalyzedUnbounded(i, total) == i + batchSize

\* line 69: candidatesAnalyzed of the report written in the pass that
\* starts at candidate i
CandidatesAnalyzed(i, total) == Min(i + batchSize, total)

\* lines 67-82: the progress report
ProgressReport(i, candidates, duplicateGroups) ==
    [exists |-> TRUE,
     candidatesAnalyzed |-> CandidatesAnalyzed(i, Len(candidates)),
     totalCandidates |-> Len(candidates),
     duplicateGroups |-> duplicateGroups,
     status |-> "in-progress"]

\* lines 48-83: the answer arrives, or the call fails; after either the
\* progress report is written
DetectBatch ==
    /\ dupPc = "candidates"
    /\ Len(dupSent) > Len(dupVerdicts)
    /\ \E answer \in OracleResults :
          LET batch == dupSent[Len(dupSent)]
          IN  /\ dupVerdicts' = Append(dupVerdicts, answer)
              /\ dupGroups' =
                    IF answer.ok THEN PushGroups(dupGroups, batch, answer.results, 1)
                    ELSE dupGroups
    /\ dupReport' = ProgressReport(batchSize * Len(dupVerdicts), dupCandidates, dupGroups')
    /\ UNCHANGED <<genVars, clUnits, clExisting, clOut, clPc, clWarnings, coVars, fuVars,
                   dupSpecs, dupCandidates, dupPc, dupSent, matchVars,
                   askVars, globalVars>>

ReturnGroups ==
    /\ dupPc = "candidates"
    /\ batchSize * Len(dupVerdicts) >= Len(dupCandidates)
    /\ dupPc' = "detected"
    /\ UNCHANGED <<genVars, clUnits, clExisting, clOut, clPc, clWarnings, coVars, fuVars,
                   dupSpecs, dupCandidates, dupVerdicts, dupGroups, dupSent, dupReport,
                   matchVars,
                   askVars, globalVars>>

NextDetect == DetectIssue \/ DetectBatch \/ ReturnGroups

SpecDetect == InitDetect /\ [][NextDetect]_vars

-----------------------------------------------------------------------------
(* C19: a candidate pair is recorded as a duplicate group exactly when the   *)
(* Oracle's verdict for it says areDuplicates or gives a similarity of 85 or *)
(* more (85 records, 40 with areDuplicates false does not), and every group  *)
(* recorded holds the two entries of the pair its verdict names.             *)

VerdictsFor(k) ==
    { v \in Verdicts :
        /\ v.pairIndex = k - 1
        /\ \E b \in DOMAIN dupVerdicts :
              \E n \in DOMAIN dupVerdicts[b].results : dupVerdicts[b].results[n] = v }

Confirms(v) == v.areDuplicates = TRUE \/ v.similarity >= 85

C19_GroupRecordedIffVerdictConfirms ==
    dupPc = "detected" =>
        /\ \A k \in DOMAIN dupCandidates :
              (\E g \in DOMAIN dupGroups : dupGroups[g].specTypes = dupCandidates[k])
                  <=> (\E v \in VerdictsFor(k) : Confirms(v))
        /\ \A g \in DOMAIN dupGroups :
              \E k \in DOMAIN dupCandidates :
                  /\ dupGroups[g].specTypes = dupCandidates[k]
                  /\ \E v \in VerdictsFor(k) :
                        Confirms(v) /\ v.similarity = dupGroups[g].similarity


-----------------------------------------------------------------------------
(* C20: with the Oracle's responses fixed, the conversion list of the group  *)
(* (in list order), the classification result and the checkpoint after a     *)
(* batch are the same whatever the order in which the concurrent calls of    *)
(* the batch complete: in an invocation that starts fresh they are the       *)
(* responses merged in the order of the batch, which the order of            *)
(* completion does not enter.                                                *)

\* the classify responses of the first n unmapped units, pushed in list order
ClassifiedThrough(n) ==
    PushBatch(<<>>, SubSeq(unmapped, 1, n), [u \in Units |-> classifyUnit(oracle.classes[u])])

\* the generateConversions responses of the first n units of order, merged
\* in that order
RECURSIVE MergedThrough(_, _, _, _)
MergedThrough(convs, groupUnits, order, n) ==
    IF n = 0 THEN convs
    ELSE LET u == order[n]
             valid == ValidEdges(AnswerOfKind(oracle.kinds[u], u, groupUnits), u, groupUnits)
         IN  MergeEdges(MergedThrough(convs, groupUnits, order, n - 1), u, valid, groupUnits)

C20_BatchResultIndependentOfCompletionOrder ==
    runs = 1 =>
        /\ pc \in {"classify", "classified"} =>
              /\ checkpoint.groupsClassified
                    = ClassifiedThrough(IF batchAt < Len(unmapped) THEN batchAt
                                        ELSE Len(unmapped))
              /\ batchAt > 0 => fileCp = checkpoint
        /\ pc = "save" =>
              /\ CurrentGroup.conversions
                    = MergedThrough(InitialConversions(CurrentGroup.id),
                                    GroupUnits(CurrentGroup), toProcess, batchAt + resultAt)
              /\ checkpoint.unitsCompleted = SubSeq(toProcess, 1, batchAt + resultAt)
              /\ checkpoint.currentConversionGroupId = CurrentGroup.id
              /\ fileCp = checkpoint

\* the second call of a batch has completed with edges, the first has not
C20_Witness ==
    /\ runs = 1
    /\ pc = "convert wait"
    /\ Len(Batch(toProcess, batchAt)) = 2
    /\ inflight = {Batch(toProcess, batchAt)[1]}
    /\ answers[Batch(toProcess, batchAt)[2]] # <<>>


-----------------------------------------------------------------------------
(* C22: an invocation given a group cap L >= 1 issues generateConversions    *)
(* requests for units of at most L groups and adds at most L group ids to    *)
(* conversionsGroupsCompleted; when the cap stops the loop, the groups not   *)
(* yet reached have received no request and the checkpoint says about them   *)
(* what it said when the invocation loaded it.                               *)

GroupsAsked == {request[1] : request \in {r \in asked : r[1] # Classify}}

GroupsBeyondCap == {unitGroups[needing[n]].id : n \in groupAt..Len(needing)}

C22_CapBoundsGroupsOfAnInvocation ==
    batchGroupLimit >= 1 /\ pc \notin {"idle", "aborted"} =>
        /\ Cardinality(GroupsAsked) <= batchGroupLimit
        /\ Len(checkpoint.conversionsGroupsCompleted)
              - Len(loaded.conversionsGroupsCompleted) <= batchGroupLimit
        /\ pc = "done" =>
              \A id \in GroupsBeyondCap :
                  /\ id \notin GroupsAsked
                  /\ ~Contains(checkpoint.conversionsGroupsCompleted, id)
                  /\ checkpoint.currentConversionGroupId = id
                        => /\ loaded.currentConversionGroupId = id
                           /\ checkpoint.unitsCompleted = loaded.unitsCompleted

C22_Witness ==
    /\ pc = "done"
    /\ batchGroupLimit = 1
    /\ groupsProcessed = 1
    /\ GroupsBeyondCap # {}
    /\ Cardinality(GroupsAsked) = 1


-----------------------------------------------------------------------------
(* The generator with files that cannot be read or written.  readFileSync   *)
(* and writeFileSync throw; nothing in main catches, so main rejects and the *)
(* process ends in main().catch(console.error) (line 289), which prints the  *)
(* error and lets the process end with status 0.                             *)

\* main rejects with what was thrown; what the process held is lost
Abort(thrown) ==
    /\ pc' = "aborted"
    /\ exit' = Ended("zero", thrown)
    /\ allUnits' = <<>> /\ unitGroups' = <<>> /\ checkpoint' = <<>> /\ unmapped' = <<>>
    /\ needing' = <<>> /\ groupAt' = 0 /\ toProcess' = <<>> /\ batchAt' = 0
    /\ inflight' = {} /\ answers' = <<>> /\ resultAt' = 0 /\ asked' = {} /\ loaded' = <<>>
    /\ batchGroupLimit' = 0 /\ groupsProcessed' = 0
    /\ UNCHANGED <<files, history, callVars>>

\* line 172: the registry file cannot be read
RegistryReadFails ==
    /\ pc \in {"idle", "done", "aborted"}
    /\ runs < setup.invocations
    /\ runs' = runs + 1
    /\ Abort("registry read")

\* saveCheckpoint (lines 198, 201, 272, 282): the checkpoint file cannot be
\* written
CheckpointWriteFails ==
    /\ \/ pc = "classify wait" /\ inflight = {}
       \/ pc \in {"classified", "results", "completed"}
    /\ Abort("checkpoint write")
    /\ UNCHANGED runs

\* saveData (lines 273, 285): the registry file cannot be written
RegistryWriteFails ==
    /\ \/ pc = "save"
       \/ pc = "group" /\ (groupAt > Len(needing) \/ LimitReached)
    /\ Abort("registry write")
    /\ UNCHANGED runs

NextFaults ==
    \/ NextGenerator \/ RegistryReadFails \/ CheckpointWriteFails \/ RegistryWriteFails

SpecFaults == InitTwoGroups /\ [][NextFaults]_vars

-----------------------------------------------------------------------------
(* C23: a run of the generator aborts only when the registry file cannot be  *)
(* read or written, and it then ends with a non-zero exit status.            *)

C23_OnlyRegistryFailureAbortsWithNonZeroStatus ==
    pc = "aborted" =>
        /\ exit.thrown \in {"registry read", "registry write"}
        /\ exit.status # "zero"


-----------------------------------------------------------------------------
(* C24: when the Oracle call for unit u fails, or its response holds an edge *)
(* that fails validation, u is left incomplete: the persisted checkpoint     *)
(* does not list u in unitsCompleted, and the group of u is not recorded as  *)
(* completed, so that the next invocation requests u again.                  *)

\* the units whose fixed response is a failure or holds invalid edges
FailingUnits == {u \in Units : oracle.kinds[u] \in {"failure", "partial"}}

C24_FailedUnitStaysIncomplete ==
    "unitsCompleted" \in DOMAIN fileCp =>
        \A u \in FailingUnits :
            /\ ~Contains(fileCp.unitsCompleted, u)
            /\ \A n \in DOMAIN fileGroups :
                  Contains(fileGroups[n].unitIds, u)
                      => ~Contains(fileCp.conversionsGroupsCompleted, fileGroups[n].id)


-----------------------------------------------------------------------------
(* C25: when an invocation without a group cap runs to its end, every group  *)
(* that needed conversions at its start is recorded in                       *)
(* conversionsGroupsCompleted, also a group that an interrupted invocation   *)
(* left in progress with all of its units in unitsCompleted.                 *)

C25_UncappedRunCompletesEveryGroup ==
    pc = "done" /\ batchGroupLimit = 0 =>
        \A n \in DOMAIN needing :
            Contains(checkpoint.conversionsGroupsCompleted, unitGroups[needing[n]].id)


-----------------------------------------------------------------------------
(* C26: in every persisted checkpoint every id of unitsCompleted is a unit   *)
(* of the group that currentConversionGroupId names, and unitsCompleted is   *)
(* empty when currentConversionGroupId is null.                              *)

C26_UnitsCompletedBelongToCurrentGroup ==
    "unitsCompleted" \in DOMAIN fileCp =>
        IF fileCp.currentConversionGroupId = Null THEN fileCp.unitsCompleted = <<>>
        ELSE \A x \in DOMAIN fileCp.unitsCompleted :
                \E n \in DOMAIN fileGroups :
                    /\ fileGroups[n].id = fileCp.currentConversionGroupId
                    /\ Contains(fileGroups[n].unitIds, fileCp.unitsCompleted[x])


-----------------------------------------------------------------------------
(* C27: after an interruption, a unit whose result was merged and            *)
(* checkpointed is not requested again: the units requested both before and  *)
(* after the interruption are units of the batch in progress when the        *)
(* process stopped.  A conversion of the generator in the registry that      *)
(* leaves unit u shows that the result of u was merged and checkpointed, the *)
(* checkpoint being written before the registry (lines 272-273).             *)

MergedBefore(group) ==
    {group.conversions[n].fromUnitId :
        n \in {m \in DOMAIN group.conversions : group.conversions[m].id[1] = "collector"}}

C27_MergedUnitIsNotRequestedAgain ==
    pc = "convert wait" =>
        \A u \in Range(Batch(toProcess, batchAt)) : u \notin MergedBefore(CurrentGroup)


-----------------------------------------------------------------------------
(* C28: in classification and in conversion generation, while an Oracle call *)
(* of the current batch is in flight the running process writes neither the  *)
(* checkpoint file nor the registry file and merges nothing into the         *)
(* checkpoint or the groups it holds; and it issues the calls of a batch     *)
(* only when no call is in flight, no result of the batch before waits to be *)
(* merged, and the checkpoint it holds is the one on disk.                   *)

Running == pc \notin {"idle", "done", "aborted"} /\ pc' \notin {"idle", "aborted"}

WritesOrMerges ==
    \/ fileCp' # fileCp \/ fileUnits' # fileUnits \/ fileGroups' # fileGroups
    \/ checkpoint' # checkpoint \/ unitGroups' # unitGroups \/ allUnits' # allUnits

IssuesCalls == inflight' \ inflight # {}

BarrierStep ==
    Running =>
        /\ WritesOrMerges => inflight = {}
        /\ IssuesCalls =>
              /\ inflight = {}
              /\ answers = <<>>
              /\ batchAt > 0 => fileCp = checkpoint

C28_NoWriteOrMergeBeforeTheBarrier == [][BarrierStep]_vars

\* the first result of a batch of two calls has been merged and checkpointed
C28_Witness ==
    /\ pc = "save"
    /\ Len(Batch(toProcess, batchAt)) = 2
    /\ resultAt = 1
    /\ inflight = {}
    /\ fileCp = checkpoint


\* ---------------------------------------------------------------------------
\* The component matcher: componentSpecMatcher.ts
\*
\* Components are the child components the matcher keeps after filtering out
\* the root-level ones (line 203), spec types are numbered, and a mapping is
\* the pair <<component, spec type>>.  matchBatch is one Oracle call from the
\* caller's side: its retries are sequential and it returns the mappings of
\* the spec types of its batch that the Oracle finds relevant.  matchOracle
\* fixes those pairs for a whole behaviour, so the Oracle is deterministic.
\* The widths are the code's 30 and 5 scaled down.

MaxComponents == 3
MatchSpecs == 2
concurrency == 2
specBatchSize == 1

Components == [n \in 1..MaxComponents |-> n]

\* lines 133-137: the number of spec-type batches of matchComponentToAllSpecs
Batches == (MatchSpecs + specBatchSize - 1) \div specBatchSize

\* lines 32-118: the mappings matchBatch returns for batch b of component c
matchBatch(c, b) ==
    LET specs == [n \in 1..(Min(b * specBatchSize, MatchSpecs) - (b - 1) * specBatchSize) |->
                    (b - 1) * specBatchSize + n]
        found == SelectSeq(specs, LAMBDA s : <<c, s>> \in matchOracle)
    IN  [n \in DOMAIN found |-> <<c, found[n]>>]

\* lines 218-239: the mappings of the checkpoint file, when there are any
CheckpointMappings == IF mappingsFile.exists THEN mappingsFile.mappings ELSE <<>>

\* lines 232-234: processedComponents
processedComponents == {m[1] : m \in Range(CheckpointMappings)}

\* the whole list at once, where the code slices a chunk
ChunkOfAll == componentsToProcess

\* line 260: the chunk of the chunk loop
Chunk == SubSeq(componentsToProcess, chunkAt + 1,
                Min(chunkAt + concurrency, Len(componentsToProcess)))

\* A task is one call of matchComponentToAllSpecs: the batch it is at and
\* whether its matchBatch call is in flight.
Task(at, calling) == [at |-> at, calling |-> calling]

Calling == {c \in DOMAIN tasks : tasks[c].calling}

\* lines 186-256: start of matchComponentsToSpecs up to the chunk loop
MatchStart ==
    /\ matchPc = "idle"
    /\ matchRuns' = matchRuns + 1
    /\ allMappings' = CheckpointMappings
    /\ LET remaining == SelectSeq(Components, LAMBDA c : c \notin processedComponents)
       IN  /\ componentsToProcess' = remaining
           /\ matchPc' = IF remaining = <<>> THEN "returned" ELSE "chunk"
    /\ chunkAt' = 0
    /\ tasks' = <<>>
    /\ UNCHANGED <<genVars, clUnits, clExisting, clOut, clPc, clWarnings, coVars, fuVars,
                   dupVars, askVars, globalVars,
                   mappingsFile, outputFile, matchOracle>>

\* lines 259-293: a chunk's components all start matchComponentToAllSpecs,
\* and each runs up to its first await, the matchBatch call of its batch 1
ChunkIssue ==
    /\ matchPc = "chunk"
    /\ tasks' = [c \in Range(Chunk) |-> Task(1, TRUE)]
    /\ matchPc' = "waiting"
    /\ UNCHANGED <<genVars, clUnits, clExisting, clOut, clPc, clWarnings, coVars, fuVars,
                   dupVars, askVars, globalVars,
                   mappingsFile, outputFile, allMappings, componentsToProcess,
                   chunkAt, matchRuns, matchOracle>>

\* lines 145-177: the matchBatch call of component c settles; its mappings
\* are pushed to the shared list, the checkpoint is saved, and the loop goes
\* on to the call of the next batch, when there is one
BatchSettles(c) ==
    /\ matchPc = "waiting"
    /\ c \in Calling
    /\ allMappings' = allMappings \o matchBatch(c, tasks[c].at)
    /\ mappingsFile' = [exists |-> TRUE, mappings |-> allMappings']
    /\ tasks' = [tasks EXCEPT ![c] = IF tasks[c].at < Batches
                                       THEN Task(tasks[c].at + 1, TRUE)
                                       ELSE Task(tasks[c].at, FALSE)]
    /\ UNCHANGED <<genVars, clUnits, clExisting, clOut, clPc, clWarnings, coVars, fuVars,
                   dupVars, askVars, globalVars,
                   outputFile, componentsToProcess, chunkAt, matchPc, matchRuns,
                   matchOracle>>

\* lines 295-331: Promise.all resolves; the loop goes to the next chunk or
\* ends, and then the final results are written
ChunkDone ==
    /\ matchPc = "waiting"
    /\ Calling = {}
    /\ chunkAt' = chunkAt + concurrency
    /\ tasks' = <<>>
    /\ IF chunkAt' < Len(componentsToProcess)
          THEN matchPc' = "chunk" /\ outputFile' = outputFile
          ELSE /\ matchPc' = "done"
               /\ outputFile' = [exists |-> TRUE, mappings |-> allMappings]
    /\ UNCHANGED <<genVars, clUnits, clExisting, clOut, clPc, clWarnings, coVars, fuVars,
                   dupVars, askVars, globalVars,
                   mappingsFile, allMappings, componentsToProcess, matchRuns,
                   matchOracle>>

\* The process is killed; the files stay.
MatchInterrupt ==
    /\ matchPc \in {"chunk", "waiting"}
    /\ matchRuns <= MaxCrashes
    /\ matchPc' = "idle"
    /\ allMappings' = <<>> /\ componentsToProcess' = <<>> /\ chunkAt' = 0 /\ tasks' = <<>>
    /\ UNCHANGED <<genVars, clUnits, clExisting, clOut, clPc, clWarnings, coVars, fuVars,
                   dupVars, askVars, globalVars,
                   mappingsFile, outputFile, matchRuns, matchOracle>>

NextMatcher ==
    \/ MatchStart
    \/ ChunkIssue
    \/ \E c \in 1..MaxComponents : BatchSettles(c)
    \/ ChunkDone
    \/ MatchInterrupt

NoCallButMatcher ==
    /\ NoGenerator
    /\ clUnits = <<>> /\ clExisting = <<>> /\ clOut = <<>> /\ clPc = "none"
    /\ clWarnings = <<>>
    /\ coUnit = 0 /\ coGroup = <<>> /\ coAnswer = <<>> /\ coOut = <<>> /\ coPc = "none"
    /\ NoFindCall
    /\ dupSpecs = <<>> /\ dupCandidates = <<>> /\ dupVerdicts = <<>> /\ dupGroups = <<>>
    /\ dupPc = "none" /\ dupSent = <<>> /\ dupReport = NoFile
    /\ NoRequest /\ NoGlobalGenerator

InitMatcher ==
    /\ NoCallButMatcher
    /\ mappingsFile = NoFile /\ outputFile = NoFile /\ allMappings = <<>>
    /\ componentsToProcess = <<>> /\ chunkAt = 0 /\ tasks = <<>> /\ matchPc = "idle"
    /\ matchRuns = 0
    /\ matchOracle \in SUBSET ((1..MaxComponents) \X (1..MatchSpecs))

SpecMatcher == InitMatcher /\ [][NextMatcher]_vars


\* ---------------------------------------------------------------------------
\* C21: after component matching is interrupted and run again, a component is
\* skipped only if all its spec-type batches had been evaluated, so the
\* mappings the matcher ends with are those of one uninterrupted run: with
\* the deterministic Oracle, the relevant pairs of every component.

\* the mappings one uninterrupted run ends with
UninterruptedMappings ==
    UNION {Range(matchBatch(c, b)) : <<c, b>> \in (1..MaxComponents) \X (1..Batches)}

C21_ResumedRunEndsWithTheUninterruptedMappings ==
    matchPc \in {"done", "returned"} => Range(allMappings) = UninterruptedMappings


\* ---------------------------------------------------------------------------
\* C29: in component matching no checkpoint write and no merge into the
\* shared mappings list happens while an Oracle call of a component of the
\* current chunk is in flight.

\* a step of the running matcher that writes the checkpoint or merges
MatcherWritesOrMerges ==
    /\ matchPc = "waiting" /\ matchPc' = "waiting"
    /\ mappingsFile' # mappingsFile \/ allMappings' # allMappings

\* the calls that are in flight throughout the step: those of the tasks the
\* step leaves as they are
StillInFlight == {c \in Calling : tasks'[c] = tasks[c]}

MatcherBarrierStep == MatcherWritesOrMerges => StillInFlight = {}

C29_NoMatcherWriteOrMergeBeforeTheBarrier == [][MatcherBarrierStep]_vars


\* ---------------------------------------------------------------------------
\* The three Oracle-driven stages, one of them running in a behaviour: the
\* generator (classification and conversion generation), the component
\* matcher, and the confirmation of duplicate candidates.

StageSpecs == 6

\* spec types of one domain whose names are all similar to each other: every
\* pair is a candidate, which makes more candidates than one call carries
InitManyCandidates ==
    /\ NoOtherCall
    /\ dupSpecs = [n \in 1..StageSpecs |->
                     [domain |-> "HVAC",
                      primaryName |-> IF n % 2 = 0 THEN <<"A">> ELSE <<"a", " ", "b", " ", "c">>]]
    /\ dupCandidates = findSemanticDuplicatesCandidates(dupSpecs)
    /\ dupVerdicts = <<>>
    /\ dupGroups = <<>>
    /\ dupPc = "candidates" /\ dupSent = <<>> /\ dupReport = NoFile

InitStages == InitFixedOracle \/ InitMatcher \/ InitManyCandidates

NextStages == NextGenerator \/ NextMatcher \/ NextDetect

SpecStages == InitStages /\ [][NextStages]_vars

\* the calls of duplicate confirmation that have no answer yet
DetectInFlight == Len(dupSent) - Len(dupVerdicts)

\* the calls that carried candidate n of the list
CallsCarrying(n) ==
    {k \in DOMAIN dupSent : \E i \in DOMAIN dupSent[k] : dupSent[k][i] = dupCandidates[n]}

Responses == {"json", "fenced json", "json in prose", "no json", "api error"}

\* claude.ts lines 52-75: askClaudeJSON strips a fence and parses the text
ParsedByAskClaudeJSON(response) == response \in {"json", "fenced json"}

\* componentSpecMatcher.ts lines 62-73: the fences are removed, the text
\* from the first '{' to the last '}' is extracted and parsed
ParsedByCleanup(response) == response \in {"json", "fenced json", "json in prose"}

retryCount == 3

Callers == {"classifyUnit", "generateConversionsFromUnit", "matchBatch"}

\* a request: its caller, the responses to the calls made for it so far,
\* the attempt of matchBatch's loop, where the caller is, and what it returns
Ask(caller, responses, n, at, result) ==
    [caller |-> caller, responses |-> responses, attempt |-> n, at |-> at,
     result |-> result]

InitAsk ==
    /\ NoGenerator
    /\ clUnits = <<>> /\ clExisting = <<>> /\ clOut = <<>> /\ clPc = "none"
    /\ clWarnings = <<>>
    /\ coUnit = 0 /\ coGroup = <<>> /\ coAnswer = <<>> /\ coOut = <<>> /\ coPc = "none"
    /\ NoFindCall
    /\ dupSpecs = <<>> /\ dupCandidates = <<>> /\ dupVerdicts = <<>> /\ dupGroups = <<>>
    /\ dupPc = "none" /\ dupSent = <<>> /\ dupReport = NoFile
    /\ NoMatcher /\ NoGlobalGenerator
    /\ \E caller \in Callers : ask = Ask(caller, <<>>, 1, "askClaudeJSON", "nothing")

\* linkUnits.js lines 9-14 and 134-145, componentSpecMatcher.ts lines 53-57:
\* the caller awaits askClaudeJSON, which makes one call.  classifyUnit and
\* generateConversionsFromUnit catch its error and return their default;
\* matchBatch goes on to its cleanup.
AskJSON ==
    /\ ask.caller \in Callers
    /\ ask.at = "askClaudeJSON"
    /\ \E response \in Responses :
         LET responses == Append(ask.responses, response)
         IN  ask' =
               IF ParsedByAskClaudeJSON(response)
               THEN Ask(ask.caller, responses, ask.attempt, "returned", "answer")
               ELSE IF ask.caller = "matchBatch"
               THEN Ask(ask.caller, responses, ask.attempt, "askClaude", "nothing")
               ELSE Ask(ask.caller, responses, ask.attempt, "returned", "default")
    /\ UNCHANGED <<genVars, clUnits, clExisting, clOut, clPc, clWarnings, coVars, fuVars,
                   dupVars, matchVars, globalVars>>

\* componentSpecMatcher.ts lines 58-73 and 103-113: matchBatch sends the same
\* prompt again with askClaude and parses the text itself; when that fails
\* too, the loop starts the next attempt, and after the last one returns []
AskAgain ==
    /\ ask.caller = "matchBatch"
    /\ ask.at = "askClaude"
    /\ \E response \in Responses :
         LET responses == Append(ask.responses, response)
         IN  ask' =
               IF ParsedByCleanup(response)
               THEN Ask(ask.caller, responses, ask.attempt, "returned", "answer")
               ELSE IF ask.attempt < retryCount
               THEN Ask(ask.caller, responses, ask.attempt + 1, "askClaudeJSON", "nothing")
               ELSE Ask(ask.caller, responses, ask.attempt, "returned", "default")
    /\ UNCHANGED <<genVars, clUnits, clExisting, clOut, clPc, clWarnings, coVars, fuVars,
                   dupVars, matchVars, globalVars>>

NextAsk == AskJSON \/ AskAgain

SpecAsk == InitAsk /\ [][NextAsk]_vars

\* C31: when the first response to a request cannot be parsed as JSON, the
\* caller makes exactly one more call for the request, and returns nothing
\* of the request when the second response cannot be parsed either.
Unparsable(response) == response \in {"json in prose", "no json"}

C31_OneRepromptThenDiscard ==
    ask.caller \in Callers /\ ask.at = "returned" /\ Unparsable(ask.responses[1]) =>
        /\ Len(ask.responses) = 2
        /\ Unparsable(ask.responses[2]) => ask.result = "default"


\* ---------------------------------------------------------------------------
\* C32: an edge that closure derived for a pair does not keep out a direct
\* edge the Oracle supplies for that pair later: when the validated edges of
\* a unit are merged, the group's list then holds, for every one of them, a
\* conversion of its pair that closure did not derive.

DerivedByClosure(conv) == conv.id[1] = "closure"

DirectEdgeAdmittedStep ==
    pc = "results" /\ pc' = "save" =>
        \A n \in DOMAIN answers[ResultUnit] :
            \A v \in Range(GroupUnits(CurrentGroup)) :
                SymbolOf(v) = answers[ResultUnit][n].to =>
                    \E c \in Range(unitGroups'[needing[groupAt]].conversions) :
                        /\ c.fromUnitId = ResultUnit /\ c.toUnitId = v
                        /\ ~DerivedByClosure(c)

C32_DerivedEdgeDoesNotKeepOutADirectEdge == [][DirectEdgeAdmittedStep]_vars


\* ---------------------------------------------------------------------------
\* C33: during closure a multiplier that is set for an ordered pair is not
\* overwritten.

\* the unit of the outermost, the middle and the innermost loop in pass t of
\* the body of the triple loop (lines 219-240)
PassK(units, t) == units[((t - 1) \div (Len(units) * Len(units))) + 1]

PassI(units, t) == units[(((t - 1) \div Len(units)) % Len(units)) + 1]

PassJ(units, t) == units[((t - 1) % Len(units)) + 1]

\* the multipliers map before pass t and after every later pass
RECURSIVE MultipliersFrom(_, _, _)
MultipliersFrom(units, m, t) ==
    IF t > Len(units) * Len(units) * Len(units) THEN <<m>>
    ELSE <<m>> \o MultipliersFrom(units,
                                  RelaxStep(m, PassK(units, t), PassI(units, t),
                                            PassJ(units, t)),
                                  t + 1)

\* C33: every existing conversion between two distinct units of the group is
\* in the output as it was, id, multiplier and equation; no pass of the loop
\* changes a multiplier that is set; and the multiplier of every conversion
\* of the output is the one the map holds at the end of the loop.
C33_MultiplierOnceSetIsKept ==
    clPc = "done" /\ Len(clUnits) >= 2 =>
        LET maps == MultipliersFrom(clUnits, SeedMultipliers(clUnits, clExisting), 1)
        IN  /\ \A n \in DOMAIN clExisting :
                  (/\ clExisting[n].fromUnitId # clExisting[n].toUnitId
                   /\ clExisting[n].fromUnitId \in Range(clUnits)
                   /\ clExisting[n].toUnitId \in Range(clUnits))
                      => \E k \in DOMAIN clOut : clOut[k] = clExisting[n]
            /\ \A t \in 1..(Len(maps) - 1) :
                  \A p \in DOMAIN maps[t] : maps[t][p] # NoMult => maps[t + 1][p] = maps[t][p]
            /\ maps[Len(maps)] = RelaxK(clUnits, SeedMultipliers(clUnits, clExisting), 1)
            /\ \A k \in DOMAIN clOut :
                  clOut[k].multiplier
                     = maps[Len(maps)][<<clOut[k].fromUnitId, clOut[k].toUnitId>>]

\* a pass finds, for a pair whose multiplier closure has derived, a
\* composition with another product, and the output has the earlier one
C33_Witness ==
    /\ clPc = "done" /\ Len(clUnits) >= 2
    /\ LET maps == MultipliersFrom(clUnits, SeedMultipliers(clUnits, clExisting), 1)
       IN  \E t \in 1..(Len(maps) - 1) :
              LET m == maps[t]
                  k == PassK(clUnits, t)
                  i == PassI(clUnits, t)
                  j == PassJ(clUnits, t)
              IN  /\ i # j
                  /\ FindConv(clExisting, i, j) = 0
                  /\ m[<<i, k>>] # NoMult /\ m[<<k, j>>] # NoMult /\ m[<<i, j>>] # NoMult
                  /\ Times(m[<<i, k>>], m[<<k, j>>]) # m[<<i, j>>]
                  /\ \E x \in DOMAIN clOut :
                        /\ clOut[x].fromUnitId = i /\ clOut[x].toUnitId = j
                        /\ clOut[x].multiplier = m[<<i, j>>]


\* ---------------------------------------------------------------------------
\* C34: a verdict that fails validation is dropped and does not keep the
\* other verdicts of its response from being recorded: once the run is over,
\* every valid verdict of an answered call that confirms its pair has its
\* DuplicateGroup, and no DuplicateGroup has a similarity outside 0-100.

ValidVerdict(v, batch) ==
    /\ v.pairIndex + 1 \in DOMAIN batch
    /\ v.similarity \in 0..100

C34_InvalidVerdictIsDroppedAlone ==
    dupPc = "detected" =>
        /\ \A b \in DOMAIN dupVerdicts :
              dupVerdicts[b].ok =>
                  \A n \in DOMAIN dupVerdicts[b].results :
                      LET v == dupVerdicts[b].results[n]
                      IN  ValidVerdict(v, dupSent[b]) /\ Records(v) =>
                              \E g \in DOMAIN dupGroups :
                                  /\ dupGroups[g].specTypes = dupSent[b][v.pairIndex + 1]
                                  /\ dupGroups[g].similarity = v.similarity
        /\ \A g \in DOMAIN dupGroups : dupGroups[g].similarity \in 0..100


\* ---------------------------------------------------------------------------
\* C35: after the k-th confirmation batch, answered or failed, the progress
\* report holds candidatesAnalyzed = min(10 k, total) and every group found
\* so far; a failed batch does not stop the later ones; and over a run the
\* counter does not decrease and no group leaves the report.

ReportKeepsUp ==
    /\ dupVerdicts = <<>> => dupReport = NoFile
    /\ dupVerdicts # <<>> =>
          /\ dupReport.exists
          /\ dupReport.candidatesAnalyzed =
                (IF 10 * Len(dupVerdicts) < Len(dupCandidates)
                 THEN 10 * Len(dupVerdicts) ELSE Len(dupCandidates))
          /\ dupReport.duplicateGroups = dupGroups
    /\ dupPc = "detected" =>
          \A n \in DOMAIN dupCandidates :
              \E b \in DOMAIN dupVerdicts : \E i \in DOMAIN dupSent[b] :
                  dupSent[b][i] = dupCandidates[n]

ReportGrowsStep ==
    dupReport.exists =>
        /\ dupReport'.exists
        /\ dupReport'.candidatesAnalyzed >= dupReport.candidatesAnalyzed
        /\ Len(dupReport'.duplicateGroups) >= Len(dupReport.duplicateGroups)
        /\ SubSeq(dupReport'.duplicateGroups, 1, Len(dupReport.duplicateGroups))
              = dupReport.duplicateGroups

C35_ReportFollowsEveryBatch == []ReportKeepsUp /\ [][ReportGrowsStep]_vars

\* the first batch failed, the second was answered and gave a group, and the
\* report counts all the candidates, fewer than two full batches
C35_Witness ==
    /\ Len(dupVerdicts) = 2
    /\ ~dupVerdicts[1].ok /\ dupVerdicts[2].ok
    /\ dupGroups # <<>>
    /\ dupReport.exists
    /\ dupReport.candidatesAnalyzed = Len(dupCandidates)
    /\ Len(dupCandidates) < 2 * batchSize


\* ---------------------------------------------------------------------------
\* C36: after the group merge of Phase 2 the registry has at most one group
\* per slug, the group of a classified name lists the units classified under
\* every name of its slug, no group lists a unit twice, and merging again
\* changes neither the groups nor their unitIds.

IdsAndUnits(groups) == [n \in DOMAIN groups |-> <<groups[n].id, groups[n].unitIds>>]

C36_MergeGivesOneGroupPerSlug ==
    pc = "group" =>
        /\ \A a, b \in DOMAIN unitGroups : unitGroups[a].id = unitGroups[b].id => a = b
        /\ \A g \in DOMAIN unitGroups :
              \A a, b \in DOMAIN unitGroups[g].unitIds :
                  unitGroups[g].unitIds[a] = unitGroups[g].unitIds[b] => a = b
        /\ \A e \in DOMAIN checkpoint.groupsClassified :
              \E g \in DOMAIN unitGroups :
                  /\ unitGroups[g].id = GroupIdOf(checkpoint.groupsClassified[e].name)
                  /\ Range(checkpoint.groupsClassified[e].ids) \subseteq Range(unitGroups[g].unitIds)
        /\ IdsAndUnits(MergeEntries([groups |-> unitGroups, units |-> allUnits],
                                    checkpoint.groupsClassified).groups)
              = IdsAndUnits(unitGroups)


\* ---------------------------------------------------------------------------
\* C37: wherever the process can stop, the registry file holds every edge
\* that was merged for a unit the checkpoint file lists in unitsCompleted, and
\* for the units of a group it lists in conversionsGroupsCompleted.

RecordedAsDone(u, g) ==
    /\ fileCp # NoFile
    /\ \/ Contains(fileCp.unitsCompleted, u)
       \/ Contains(fileCp.conversionsGroupsCompleted, unitGroups[g].id)

C37_CheckpointNeverAheadOfRegistry ==
    pc \in {"group", "convert", "convert wait", "results", "save", "completed"} =>
        \A g \in DOMAIN unitGroups :
            \A n \in DOMAIN unitGroups[g].conversions :
                LET conv == unitGroups[g].conversions[n]
                IN  RecordedAsDone(conv.fromUnitId, g) =>
                        /\ g \in DOMAIN fileGroups
                        /\ conv \in Range(fileGroups[g].conversions)

(***************************************************************************)
(* The closure function under every iteration order: the units of a group  *)
(* in any order (the order of the group's unitIds), with conversions whose *)
(* multipliers are binary floating-point numbers.                          *)
(***************************************************************************)
Orderings(n) == {f \in [1..n -> 1..n] : Range(f) = 1..n}

BinaryMultipliers == {Binary(3, 0), Binary(5, 0)}

InitClosureOrders ==
    /\ NoGenerator
    /\ NoCollectorCall
    /\ \E n \in 0..ClosureUnits :
         /\ clUnits \in Orderings(n)
         /\ \E P \in SUBSET DirectPairs(n) :
              /\ Cardinality(P) <= MaxDirectEdges
              /\ \E mult \in [P -> BinaryMultipliers] :
                   clExisting = [x \in 1..Cardinality(P) |->
                                   LET p == PairSeq(P, n)[x]
                                   IN  Conv(<<"registry", p[1], p[2]>>, p[1], p[2], mult[p],
                                            EquationOf(mult[p]))]
    /\ clOut = NotRun
    /\ clPc = "input"
    /\ clWarnings = <<>>

SpecClosureOrders == InitClosureOrders /\ [][NextClosure]_vars

\* <<i, j, product>> for every walk of at most n conversions of T, the
\* product taken without rounding
RECURSIVE WalkProducts(_, _)
WalkProducts(T, n) ==
    IF n <= 1 THEN T
    ELSE LET shorter == WalkProducts(T, n - 1)
         IN  shorter \cup
                 {<<r[1][1], r[2][2], TimesExactly(r[1][3], r[2][3])>> :
                      r \in {x \in shorter \X T : x[1][2] = x[2][1]}}

\* any two directed paths between the same ordered pair have equal products,
\* a path from a unit back to itself the product 1
Consistent(T, n) ==
    LET W == WalkProducts(T, n)
    IN  /\ \A s, t \in W : (s[1] = t[1] /\ s[2] = t[2]) => s[3] = t[3]
        /\ \A s \in W : s[1] = s[2] => s[3] \in {One, Binary(1, 0)}

\* the units in ascending order
Ascending(units) == [x \in 1..Len(units) |-> x]

(***************************************************************************)
(* C38.  When any two directed paths between the same ordered pair of      *)
(* units have equal multiplier products, closure yields the same           *)
(* multiplier for every pair under every ordering of the group's units:    *)
(* the conversions it returns for the units in the order given are, as     *)
(* (from, to, multiplier) triples, those it returns for the units in       *)
(* ascending order.                                                        *)
(***************************************************************************)
C38_ConsistentEdgesGiveTheSameMultipliersInEveryOrder ==
    (clPc = "done" /\ Consistent(Triples(clExisting), Len(clUnits)))
        => Triples(clOut) = Triples(generateCompleteConversions(Ascending(clUnits), clExisting))

(***************************************************************************)
(* C39.  The closure tool only adds conversions: every conversion that is  *)
(* in a group's list before the tool runs, whatever its endpoints, is      *)
(* still in the list afterwards, and no group's list gets shorter.         *)
(***************************************************************************)
ClosureToolKeepsStep ==
    (pc \in {"idle", "done", "aborted"} /\ pc' = pc /\ fileGroups' = CompleteGroups(fileGroups))
        => \A n \in DOMAIN fileGroups :
               /\ Range(fileGroups[n].conversions) \subseteq Range(fileGroups'[n].conversions)
               /\ Len(fileGroups'[n].conversions) >= Len(fileGroups[n].conversions)

C39_ClosureOnlyAddsConversions == [][ClosureToolKeepsStep]_vars

(***************************************************************************)
(* The global spec-type generator, src/unnamed/part_004:                   *)
(* generateGlobalSpecTypes (lines 224-336) and generateSingleSpecType      *)
(* (lines 187-219).  A category is its position in the list; the Oracle's  *)
(* part in one iteration of generateSingleSpecType is its outcome: the     *)
(* proposal is a duplicate, the proposal is unique and the full spec type  *)
(* is generated, or one of the calls throws.                               *)
(***************************************************************************)
MaxCategories == 2

EXHAUSTION_THRESHOLD == 10

MAX_PER_CATEGORY == 100

maxRetries == 3

\* line 303, with the consecutive duplicates left out
LoopConditionCountOnly(consecutive, count) == count < MAX_PER_CATEGORY

\* line 303: the condition of the while loop
LoopCondition(consecutive, count) ==
    consecutive < EXHAUSTION_THRESHOLD /\ count < MAX_PER_CATEGORY

InitGlobal ==
    /\ NoGenerator
    /\ clUnits = <<>> /\ clExisting = <<>> /\ clOut = <<>> /\ clPc = "none"
    /\ clWarnings = <<>>
    /\ coUnit = 0 /\ coGroup = <<>> /\ coAnswer = <<>> /\ coOut = <<>> /\ coPc = "none"
    /\ NoFindCall
    /\ dupSpecs = <<>> /\ dupCandidates = <<>> /\ dupVerdicts = <<>> /\ dupGroups = <<>>
    /\ dupPc = "none" /\ dupSent = <<>> /\ dupReport = NoFile
    /\ NoMatcher /\ NoRequest
    /\ sgPc = "while" /\ category = 1 /\ categoryCount = 0 /\ consecutiveDuplicates = 0
    /\ attempt = 0 /\ newSpecTypes = <<>> /\ proposals = 0 /\ nullsInARow = 0

NoCallButGlobal ==
    UNCHANGED <<genVars, clUnits, clExisting, clOut, clPc, clWarnings, coVars, fuVars,
                dupVars, matchVars, askVars>>

\* lines 303-308: the loop goes on and calls generateSingleSpecType, which
\* enters its first iteration
CallSingle ==
    /\ sgPc = "while"
    /\ LoopCondition(consecutiveDuplicates, categoryCount)
    /\ sgPc' = "single"
    /\ attempt' = 1
    /\ proposals' = 0
    /\ UNCHANGED <<category, categoryCount, consecutiveDuplicates, newSpecTypes, nullsInARow>>
    /\ NoCallButGlobal

\* lines 297-301 and 303: the loop of the category ends; the next category
\* starts with fresh counters, and after the last one the generator returns
LeaveLoop ==
    /\ sgPc = "while"
    /\ ~LoopCondition(consecutiveDuplicates, categoryCount)
    /\ IF category < MaxCategories
       THEN /\ category' = category + 1
            /\ categoryCount' = 0
            /\ consecutiveDuplicates' = 0
            /\ nullsInARow' = 0
            /\ UNCHANGED sgPc
       ELSE /\ sgPc' = "done"
            /\ UNCHANGED <<category, categoryCount, consecutiveDuplicates, nullsInARow>>
    /\ UNCHANGED <<attempt, newSpecTypes, proposals>>
    /\ NoCallButGlobal

\* lines 193-204 and 316-321: the proposal is a duplicate; the next
\* iteration, or null after the last one, which the loop counts
ProposalDuplicate ==
    /\ sgPc = "single"
    /\ proposals' = proposals + 1
    /\ IF attempt < maxRetries
       THEN /\ attempt' = attempt + 1
            /\ UNCHANGED <<sgPc, consecutiveDuplicates, nullsInARow>>
       ELSE /\ sgPc' = "while"
            /\ attempt' = 0
            /\ consecutiveDuplicates' = consecutiveDuplicates + 1
            /\ nullsInARow' = nullsInARow + 1
    /\ UNCHANGED <<category, categoryCount, newSpecTypes>>
    /\ NoCallButGlobal

\* lines 193-196, 205-208 and 310-315: the proposal is unique and the spec
\* type is generated, saved and counted
ProposalUnique ==
    /\ sgPc = "single"
    /\ proposals' = proposals + 1
    /\ sgPc' = "while"
    /\ attempt' = 0
    /\ newSpecTypes' = Append(newSpecTypes, category)
    /\ categoryCount' = categoryCount + 1
    /\ consecutiveDuplicates' = 0
    /\ nullsInARow' = 0
    /\ UNCHANGED category
    /\ NoCallButGlobal

\* lines 210-215: generateProposal, preValidateProposal or
\* generateFullSpecType throws; the last iteration rethrows, and nothing
\* between it and the caller of generateGlobalSpecTypes catches
ProposalError ==
    /\ sgPc = "single"
    /\ proposals' = proposals + 1
    /\ IF attempt = maxRetries
       THEN /\ sgPc' = "thrown"
            /\ attempt' = 0
       ELSE /\ attempt' = attempt + 1
            /\ UNCHANGED sgPc
    /\ UNCHANGED <<category, categoryCount, consecutiveDuplicates, newSpecTypes, nullsInARow>>
    /\ NoCallButGlobal

NextGlobal ==
    CallSingle \/ LeaveLoop \/ ProposalDuplicate \/ ProposalUnique \/ ProposalError

SpecGlobal == InitGlobal /\ [][NextGlobal]_vars

\* every call of the Oracle settles
SpecGlobalFair == SpecGlobal /\ WF_vars(NextGlobal)

\* the spec types generated for category c
GeneratedFor(c) == Cardinality({n \in DOMAIN newSpecTypes : newSpecTypes[n] = c})

(***************************************************************************)
(* C40.  For each category the generator stops as soon as 10 generation    *)
(* attempts in a row have produced no new spec type or 100 spec types have *)
(* been generated for the category: no attempt starts after that.  An      *)
(* attempt makes at most 3 proposals, a successful generation sets the     *)
(* consecutive counter to 0, and the loop of every category terminates.    *)
(***************************************************************************)
GlobalCounts ==
    /\ proposals <= maxRetries
    /\ nullsInARow <= EXHAUSTION_THRESHOLD
    /\ \A c \in 1..MaxCategories : GeneratedFor(c) <= MAX_PER_CATEGORY

GlobalStep ==
    /\ (sgPc = "while" /\ sgPc' = "single")
           => (nullsInARow < 10 /\ GeneratedFor(category) < 100)
    /\ (sgPc = "while" /\ (nullsInARow >= 10 \/ GeneratedFor(category) >= 100))
           => (category' # category \/ sgPc' = "done")
    /\ newSpecTypes' # newSpecTypes => consecutiveDuplicates' = 0

CategoryLoopEnds(c) ==
    (category = c /\ sgPc \in {"while", "single"})
        ~> (category # c \/ sgPc \in {"done", "thrown"})

C40_CategoryLoopStopsAtTheThresholds ==
    /\ []GlobalCounts
    /\ [][GlobalStep]_vars
    /\ \A c \in 1..MaxCategories : CategoryLoopEnds(c)

\* the last category is exhausted one spec type short of the limit
C40_Witness ==
    /\ sgPc = "while" /\ category = MaxCategories
    /\ nullsInARow = EXHAUSTION_THRESHOLD
    /\ GeneratedFor(category) = MAX_PER_CATEGORY - 1

=============================================================================
